---- MODULE Spec2Model ----
(***************************************************************************)
(* PASCAL Agent: the conversation-to-action protocol of the Fusion add-in  *)
(* (AgentAddIn1.py) and of the agent runner it spawns once per event       *)
(* (external/agent_runner.py).                                             *)
(*                                                                         *)
(* Text the code inspects character by character (strip, lower,            *)
(* startswith, endswith, substring search) is a sequence of one-character  *)
(* strings; text the code only stores or forwards is a record tagged with  *)
(* the place that produced it.                                             *)
(***************************************************************************)
EXTENDS Integers, Sequences, FiniteSets, TLC

VARIABLES
  files,   \* STATE_DIR: session id -> the persisted session record
  rn,      \* the agent runner process: its position and locals
  out,     \* what the last runner process printed, and its exit code
  runs,    \* number of runner processes started so far
  host,    \* the add-in: _state (session_id, last_actions) and the handler's position
  ui,      \* what the current/last palette event made the add-in do
  notifies, \* number of palette events handled so far
  norm,    \* one parsed model output on its way through the repair steps
  peers,   \* runner processes running side by side: position and locals of each
  exec     \* FusionActionExecutor.execute_actions: its locals, _state and the design

vars == <<files, rn, out, runs, host, ui, notifies, norm, peers, exec>>

----------------------------------------------------------------------------
(* Python string operations, on sequences of characters *)

\* str.lower(), one character
LowerChar(c) ==
  CASE c = "A" -> "a" [] c = "B" -> "b" [] c = "C" -> "c" [] c = "D" -> "d"
    [] c = "E" -> "e" [] c = "F" -> "f" [] c = "G" -> "g" [] c = "H" -> "h"
    [] c = "I" -> "i" [] c = "J" -> "j" [] c = "K" -> "k" [] c = "L" -> "l"
    [] c = "M" -> "m" [] c = "N" -> "n" [] c = "O" -> "o" [] c = "P" -> "p"
    [] c = "Q" -> "q" [] c = "R" -> "r" [] c = "S" -> "s" [] c = "T" -> "t"
    [] c = "U" -> "u" [] c = "V" -> "v" [] c = "W" -> "w" [] c = "X" -> "x"
    [] c = "Y" -> "y" [] c = "Z" -> "z" [] OTHER -> c

\* str.lower()
lower(t) == [i \in 1..Len(t) |-> LowerChar(t[i])]

IsSpace(c) == c \in {" ", "\t", "\n", "\r"}

RECURSIVE lstrip(_)
lstrip(t) == IF t # <<>> /\ IsSpace(Head(t)) THEN lstrip(Tail(t)) ELSE t

RECURSIVE rstrip(_)
rstrip(t) ==
  IF t # <<>> /\ IsSpace(t[Len(t)]) THEN rstrip(SubSeq(t, 1, Len(t) - 1)) ELSE t

\* str.strip(): drop leading and trailing whitespace
strip(t) == lstrip(rstrip(t))

\* str.startswith / str.endswith / the `in` operator on strings
startswith(t, p) == Len(t) >= Len(p) /\ SubSeq(t, 1, Len(p)) = p
endswith(t, p) == Len(t) >= Len(p) /\ SubSeq(t, Len(t) - Len(p) + 1, Len(t)) = p
contains(t, p) == \E i \in 1..(Len(t) - Len(p) + 1) : SubSeq(t, i, i + Len(p) - 1) = p

Range(s) == {s[i] : i \in 1..Len(s)}

----------------------------------------------------------------------------
(* String literals of agent_runner.py *)

\* "Are you happy with this plan? Reply 'yes' to proceed to exec..."
CONFIRM_QUESTION ==
  <<"A","r","e"," ","y","o","u"," ","h","a","p","p","y"," ","w","i","t","h"," ","t","h","i",
    "s"," ","p","l","a","n","?"," ","R","e","p","l","y"," ","'","y","e","s","'"," ","t","o",
    " ","p","r","o","c","e","e","d"," ","t","o"," ","e","x","e","c","u","t","i","o","n",",",
    " ","o","r"," ","d","e","s","c","r","i","b","e"," ","a","n","y"," ","c","h","a","n","g",
    "e","s",".">>

\* "Should the stated size refer to side length (e.g., 2 cm per ..."
Q_SIDE_OR_AREA ==
  <<"S","h","o","u","l","d"," ","t","h","e"," ","s","t","a","t","e","d"," ","s","i","z","e",
    " ","r","e","f","e","r"," ","t","o"," ","s","i","d","e"," ","l","e","n","g","t","h"," ",
    "(","e",".","g",".",","," ","2"," ","c","m"," ","p","e","r"," ","s","i","d","e",")"," ",
    "o","r"," ","a","r","e","a","?">>

\* "Where should the geometry be positioned on the XY plane (e.g..."
Q_POSITION ==
  <<"W","h","e","r","e"," ","s","h","o","u","l","d"," ","t","h","e"," ","g","e","o","m","e",
    "t","r","y"," ","b","e"," ","p","o","s","i","t","i","o","n","e","d"," ","o","n"," ","t",
    "h","e"," ","X","Y"," ","p","l","a","n","e"," ","(","e",".","g",".",","," ","c","e","n",
    "t","e","r","e","d"," ","a","t"," ","o","r","i","g","i","n"," ","o","r"," ","s","p","e",
    "c","i","f","i","c"," ","c","o","o","r","d","i","n","a","t","e","s",")","?">>

\* "I need a detail to proceed."
MSG_NEED_DETAIL ==
  <<"I"," ","n","e","e","d"," ","a"," ","d","e","t","a","i","l"," ","t","o"," ","p","r","o",
    "c","e","e","d",".">>

\* "Plan prepared; ready to execute when you confirm."
MSG_READY ==
  <<"P","l","a","n"," ","p","r","e","p","a","r","e","d",";"," ","r","e","a","d","y"," ","t",
    "o"," ","e","x","e","c","u","t","e"," ","w","h","e","n"," ","y","o","u"," ","c","o","n",
    "f","i","r","m",".">>

\* "Plan prepared. Confirm to proceed, or describe changes."
MSG_PLANNED ==
  <<"P","l","a","n"," ","p","r","e","p","a","r","e","d","."," ","C","o","n","f","i","r","m",
    " ","t","o"," ","p","r","o","c","e","e","d",","," ","o","r"," ","d","e","s","c","r","i",
    "b","e"," ","c","h","a","n","g","e","s",".">>

\* "Using previously prepared actions. Proceeding to execution."
MSG_USING_PREV ==
  <<"U","s","i","n","g"," ","p","r","e","v","i","o","u","s","l","y"," ","p","r","e","p","a",
    "r","e","d"," ","a","c","t","i","o","n","s","."," ","P","r","o","c","e","e","d","i","n",
    "g"," ","t","o"," ","e","x","e","c","u","t","i","o","n",".">>

\* "I had trouble producing a valid plan. Please restate your re..."
MSG_TROUBLE ==
  <<"I"," ","h","a","d"," ","t","r","o","u","b","l","e"," ","p","r","o","d","u","c","i","n",
    "g"," ","a"," ","v","a","l","i","d"," ","p","l","a","n","."," ","P","l","e","a","s","e",
    " ","r","e","s","t","a","t","e"," ","y","o","u","r"," ","r","e","q","u","e","s","t"," ",
    "w","i","t","h"," ","s","i","z","e","s",","," ","p","l","a","n","e",","," ","a","n","d",
    " ","p","o","s","i","t","i","o","n",".">>

\* "What exact sizes (with units)?"
Q_SIZES ==
  <<"W","h","a","t"," ","e","x","a","c","t"," ","s","i","z","e","s"," ","(","w","i","t","h",
    " ","u","n","i","t","s",")","?">>

\* "Which plane (XY, YZ, XZ)?"
Q_PLANE ==
  <<"W","h","i","c","h"," ","p","l","a","n","e"," ","(","X","Y",","," ","Y","Z",","," ","X",
    "Z",")","?">>

\* "Where should it be positioned (e.g., centered at origin or s..."
Q_WHERE ==
  <<"W","h","e","r","e"," ","s","h","o","u","l","d"," ","i","t"," ","b","e"," ","p","o","s",
    "i","t","i","o","n","e","d"," ","(","e",".","g",".",","," ","c","e","n","t","e","r","e",
    "d"," ","a","t"," ","o","r","i","g","i","n"," ","o","r"," ","s","p","e","c","i","f","i",
    "c"," ","c","o","o","r","d","i","n","a","t","e","s",")","?">>

\* the vocabulary of is_confirmation_text
confirmations ==
  {<<"y","e","s">>,
   <<"y">>,
   <<"o","k">>,
   <<"o","k","a","y">>,
   <<"s","u","r","e">>,
   <<"p","r","o","c","e","e","d">>,
   <<"c","o","n","f","i","r","m">>,
   <<"g","o"," ","a","h","e","a","d">>,
   <<"l","o","o","k","s"," ","g","o","o","d">>,
   <<"s","o","u","n","d","s"," ","g","o","o","d">>,
   <<"d","o"," ","i","t">>,
   <<"y","e","s"," ","d","o"," ","i","t">>,
   <<"a","l","r","i","g","h","t">>,
   <<"y","e","p">>,
   <<"y","e","a","h">>}

W_YES == <<"y","e","s">>
W_OK == <<"o","k">>
W_SQUARE == <<"s","q","u","a","r","e">>
W_CM == <<"c","m">>
W_MM == <<"m","m">>
W_QMARK == <<"?">>

----------------------------------------------------------------------------
(* Inputs: texts a user, the host or the model may write *)

\* 'Yes'
T_YES ==
  <<"Y","e","s">>

\* ' OK ': padded, upper case
T_OK_PAD ==
  <<" ","O","K"," ">>

\* 'no'
T_NO ==
  <<"n","o">>

\* '2cm square'
T_SQUARE ==
  <<"2","c","m"," ","s","q","u","a","r","e">>

\* 'OK to proceed': the text the palette handler passes with confirm_execute
T_OK_TO_PROCEED ==
  <<"O","K"," ","t","o"," ","p","r","o","c","e","e","d">>

\* '{"ok": true, "details": "All actions executed succ...'
T_RESULT_OK ==
  <<"{","\"","o","k","\"",":"," ","t","r","u","e",","," ","\"","d","e","t","a","i","l","s",
    "\"",":"," ","\"","A","l","l"," ","a","c","t","i","o","n","s"," ","e","x","e","c","u","t",
    "e","d"," ","s","u","c","c","e","s","s","f","u","l","l","y",".","\"","}">>

\* '{"ok": false, "details": "Failed to create executo...'
T_RESULT_NO_EXECUTOR ==
  <<"{","\"","o","k","\"",":"," ","f","a","l","s","e",","," ","\"","d","e","t","a","i","l",
    "s","\"",":"," ","\"","F","a","i","l","e","d"," ","t","o"," ","c","r","e","a","t","e"," ",
    "e","x","e","c","u","t","o","r",":"," ","N","o"," ","a","c","t","i","v","e"," ","F","u",
    "s","i","o","n"," ","d","e","s","i","g","n","\"","}">>

\* '{"ok": false, "details": "Execution error: host"}': the exception text and traceback abbreviated to 'host'
T_RESULT_EXEC_ERROR ==
  <<"{","\"","o","k","\"",":"," ","f","a","l","s","e",","," ","\"","d","e","t","a","i","l",
    "s","\"",":"," ","\"","E","x","e","c","u","t","i","o","n"," ","e","r","r","o","r",":"," ",
    "h","o","s","t","\"","}">>

\* 'Generate executable Fusion actions for: '
FORCE_PREFIX ==
  <<"G","e","n","e","r","a","t","e"," ","e","x","e","c","u","t","a","b","l","e"," ","F","u",
    "s","i","o","n"," ","a","c","t","i","o","n","s"," ","f","o","r",":"," ">>

\* '. Use default values: plane=XY, position=(0,0), si...'
FORCE_SUFFIX ==
  <<"."," ","U","s","e"," ","d","e","f","a","u","l","t"," ","v","a","l","u","e","s",":"," ",
    "p","l","a","n","e","=","X","Y",","," ","p","o","s","i","t","i","o","n","=","(","0",",",
    "0",")",","," ","s","i","z","e","=","2","c","m"," ","i","f"," ","n","o","t"," ","s","p",
    "e","c","i","f","i","e","d",".">>

\* 'Summary.': a model-written assistant_message that is not a question
AM_SUMMARY ==
  <<"S","u","m","m","a","r","y",".">>

\* 'Which plane? ': a model-written assistant_message phrased as a question, trailing blank
AM_QUESTION ==
  <<"W","h","i","c","h"," ","p","l","a","n","e","?"," ">>

\* 'How big?': a model-written question
Q_MODEL ==
  <<"H","o","w"," ","b","i","g","?">>

\* ' ARE YOU HAPPY WITH THIS PLAN? REPLY 'YES' TO PROC...': CONFIRM_QUESTION as a model may echo it: upper case, padded with blanks
Q_CONFIRM_SHOUTED ==
  <<" ","A","R","E"," ","Y","O","U"," ","H","A","P","P","Y"," ","W","I","T","H"," ","T","H",
    "I","S"," ","P","L","A","N","?"," ","R","E","P","L","Y"," ","'","Y","E","S","'"," ","T",
    "O"," ","P","R","O","C","E","E","D"," ","T","O"," ","E","X","E","C","U","T","I","O","N",
    ","," ","O","R"," ","D","E","S","C","R","I","B","E"," ","A","N","Y"," ","C","H","A","N",
    "G","E","S","."," ">>

----------------------------------------------------------------------------
(* Bounds of the model *)

\* runner processes started in one behaviour
MaxRuns == 2

----------------------------------------------------------------------------
(* Data model of agent_runner.py *)

MAX_TRIES == 3
HISTORY_WINDOW == 8

\* StatusT
Statuses == {"need_clarification", "planned", "ready_to_execute", "executing", "done"}

\* the Literal of Action.action
AllowedActions ==
  {"create_sketch", "add_rectangle", "add_circle", "extrude_last_profile", "add_text"}

\* parsed JSON values: a dict is a record of its keys, a list is JList of a
\* sequence, a boolean is JBool, a string is JStr of its characters or, when
\* only what json.loads makes of it matters, JJson of that value; any other
\* value (a number, null, a string that is not JSON) is JOther of its type
JList(s) == [list |-> s]
JOther(type) == [json |-> type]
S_READY ==
  <<"r","e","a","d","y","_","t","o","_","e","x","e","c","u","t","e">>

S_PLANNED ==
  <<"p","l","a","n","n","e","d">>

S_NEED ==
  <<"n","e","e","d","_","c","l","a","r","i","f","i","c","a","t","i","o","n">>

S_EXECUTING ==
  <<"e","x","e","c","u","t","i","n","g">>

S_DONE ==
  <<"d","o","n","e">>

\* a status outside StatusT
S_FINISHED ==
  <<"f","i","n","i","s","h","e","d">>

JStr(text) == [json |-> "string", text |-> text]
JJson(value) == [json |-> "string", loads |-> value]
JBool(b) == [bool |-> b]
IsList(v) == "list" \in DOMAIN v
IsStr(v) == "json" \in DOMAIN v /\ v.json = "string"
IsBool(v) == "bool" \in DOMAIN v
IsDict(v) == "list" \notin DOMAIN v /\ "json" \notin DOMAIN v

\* Action.model_validate: exactly the keys action and params (extra="forbid"),
\* a known kind, params a dict
ValidAction(a) ==
  DOMAIN a = {"action", "params"} /\ a.action \in AllowedActions /\ IsDict(a.params)

\* "ALLOWED ACTIONS (exact names & params)" of SYSTEM_ROLE
RequiredParams(kind) ==
  CASE kind = "create_sketch" -> {"plane"}
    [] kind = "add_rectangle" -> {"sketch_id", "x1", "y1", "x2", "y2"}
    [] kind = "add_circle" -> {"sketch_id", "cx", "cy", "r"}
    [] kind = "extrude_last_profile" -> {"distance", "operation"}
    [] kind = "add_text" -> {"plane", "text", "height", "x", "y"}
    [] OTHER -> {}

ACT_SKETCH == [action |-> "create_sketch", params |-> [plane |-> "XY"]]
ACT_CIRCLE ==
  [action |-> "add_circle", params |-> [sketch_id |-> "sk_0", cx |-> 0, cy |-> 0, r |-> 1]]
ACT_RECT ==
  [action |-> "add_rectangle",
   params |-> [sketch_id |-> "sk_0", x1 |-> -1, y1 |-> -1, x2 |-> 1, y2 |-> 1]]

\* an AgentReply object
AgentReply(st, am, qs, pl, acts, rc) ==
  [status |-> st, assistant_message |-> am, questions |-> qs, plan |-> pl,
   actions |-> acts, requires_confirmation |-> rc]

\* dict.get on the session record, for the two optional keys
LastStatus(state) == IF "last_status" \in DOMAIN state THEN state.last_status ELSE "None"
LastActions(state) == IF "last_actions" \in DOMAIN state THEN state.last_actions ELSE <<>>

load_state(fs, session_id) ==
  IF session_id \in DOMAIN fs THEN fs[session_id]
  ELSE [session_id |-> session_id, history |-> <<>>]

save_state(fs, session_id, data) == (session_id :> data) @@ fs

\* message and turn contents
Const(name) == [t |-> "const", name |-> name]
Text(txt) == [t |-> "text", text |-> txt]
Msg(role, content) == [role |-> role, content |-> content]

FORCE_DIRECTIVE == Msg("user", Const("User approves the plan. Convert the previously proposed plan into actions now."))
MUST_DIRECTIVE == Msg("user", Const("You MUST now output actions[]."))
FIX_BLOCK == Msg("system", Const("Your previous reply did not strictly match the required JSON schema."))

is_confirmation_text(text) ==
  LET t == lower(strip(text))
  IN IF t = <<>> THEN FALSE
     ELSE t \in confirmations \/ startswith(t, W_YES) \/ startswith(t, W_OK)

\* EventMessage as it would be if confirm_execute passed the user text on
EventMessage_EchoesText(event, user_message) ==
  IF event = "user_message" THEN Msg("user", Text(user_message))
  ELSE IF event = "confirm_execute"
    THEN Msg("user", Text(user_message))
  ELSE IF event = "execution_result"
    THEN Msg("user", [t |-> "exec_report", text |-> user_message])
  ELSE Msg("user", Text(user_message))

EventMessage(event, user_message) ==
  IF event = "user_message" THEN Msg("user", Text(user_message))
  ELSE IF event = "confirm_execute"
    THEN Msg("user", Const("User confirms: proceed with execution of proposed actions."))
  ELSE IF event = "execution_result"
    THEN Msg("user", [t |-> "exec_report", text |-> user_message])
  ELSE Msg("user", Text(user_message))

\* LastTurns as it would be if the window were taken from the start
LastTurns_Oldest(history, n) ==
  SubSeq(history, 1, IF Len(history) > n THEN n ELSE Len(history))

\* history[-n:]
LastTurns(history, n) ==
  SubSeq(history, IF Len(history) > n THEN Len(history) - n + 1 ELSE 1, Len(history))

\* a history entry that is a dict with a role and a content
IsTurn(turn) == "role" \in DOMAIN turn /\ "content" \in DOMAIN turn

build_messages_from_state(state, event, user_message) ==
  <<Msg("system", Const("SYSTEM_ROLE")), Msg("system", Const("USER_GUIDE")),
    Msg("system", Const("EXAMPLE_NEED_CLARIFY"))>>
  \o SelectSeq(LastTurns(state.history, HISTORY_WINDOW), IsTurn)
  \o <<EventMessage(event, user_message)>>

\* plan_confirmed as it would be if the last status were not looked at
plan_confirmed_AnyStatus(event, user_message, state) ==
  event = "user_message" /\ is_confirmation_text(user_message)

plan_confirmed(event, user_message, state) ==
  event = "user_message" /\ is_confirmation_text(user_message)
  /\ LastStatus(state) = "planned"

\* the messages of the first pass
FirstMessages(state, event, user_message) ==
  build_messages_from_state(state, event, user_message)
  \o (IF plan_confirmed(event, user_message, state) THEN <<FORCE_DIRECTIVE>> ELSE <<>>)

\* the canned reply of ask_model_with_retries
FALLBACK_REPLY ==
  AgentReply("need_clarification", MSG_TROUBLE, <<Q_SIZES, Q_PLANE, Q_WHERE>>, <<>>, <<>>, FALSE)

\* 'LLM agent error: ' (the exception text and traceback that follow are left out)
MSG_LLM_ERROR ==
  <<"L","L","M"," ","a","g","e","n","t"," ","e","r","r","o","r",":"," ">>

\* 'Could not parse payload: ' (the exception text that follows is left out)
MSG_PAYLOAD_ERROR ==
  <<"C","o","u","l","d"," ","n","o","t"," ","p","a","r","s","e"," ","p","a","y","l","o","a",
    "d",":"," ">>

\* what main's exception handler prints
ERROR_REPLY == AgentReply("need_clarification", MSG_LLM_ERROR, <<>>, <<>>, <<>>, FALSE)

\* what parse_payload_from_argv prints for an unparsable payload
PAYLOAD_ERROR_REPLY ==
  AgentReply("need_clarification", MSG_PAYLOAD_ERROR, <<>>, <<>>, <<>>, FALSE)

----------------------------------------------------------------------------
(* main, after the model has answered: gating, repair, persistence *)

\* "In a planned reply, always add a clear confirm question"
EnsurePlanQuestion(reply) ==
  IF reply.status = "planned"
    /\ \A i \in 1..Len(reply.questions) :
         lower(strip(reply.questions[i])) # lower(CONFIRM_QUESTION)
  THEN [reply EXCEPT !.questions = Append(@, CONFIRM_QUESTION)]
  ELSE reply

\* GateDone as it would be if only user_message were gated
GateDone_UserMessageOnly(event, reply) ==
  IF event = "user_message" /\ reply.status = "done"
  THEN IF reply.actions # <<>>
       THEN [reply EXCEPT !.status = "ready_to_execute",
                          !.requires_confirmation = TRUE,
                          !.assistant_message = IF @ = <<>> THEN MSG_READY ELSE @]
       ELSE [reply EXCEPT !.status = "planned",
                          !.assistant_message = IF @ = <<>> THEN MSG_PLANNED ELSE @]
  ELSE reply

\* GateDone as it would be if every premature done became planned
GateDone_AlwaysPlanned(event, reply) ==
  IF event # "execution_result" /\ reply.status = "done"
  THEN [reply EXCEPT !.status = "planned",
                     !.assistant_message = IF @ = <<>> THEN MSG_PLANNED ELSE @]
  ELSE reply

\* GateDone as it would be if only a done reply that carries actions were gated
GateDone_OnlyWithActions(event, reply) ==
  IF event # "execution_result" /\ reply.status = "done" /\ reply.actions # <<>>
  THEN [reply EXCEPT !.status = "ready_to_execute",
                     !.requires_confirmation = TRUE,
                     !.assistant_message = IF @ = <<>> THEN MSG_READY ELSE @]
  ELSE reply

\* "State gating: never claim done unless host sent execution_result"
GateDone(event, reply) ==
  IF event # "execution_result" /\ reply.status = "done"
  THEN IF reply.actions # <<>>
       THEN [reply EXCEPT !.status = "ready_to_execute",
                          !.requires_confirmation = TRUE,
                          !.assistant_message = IF @ = <<>> THEN MSG_READY ELSE @]
       ELSE [reply EXCEPT !.status = "planned",
                          !.assistant_message = IF @ = <<>> THEN MSG_PLANNED ELSE @]
  ELSE reply

\* EnsureConfirmation as it would be if the flag were left as the model gave it
EnsureConfirmation_Trusting(reply) == reply

\* "Ensure ready state asks for confirmation"
EnsureConfirmation(reply) ==
  IF reply.status = "ready_to_execute" /\ ~reply.requires_confirmation
  THEN [reply EXCEPT !.requires_confirmation = TRUE]
  ELSE reply

\* ReusePreviousActions as it would be if the entries that validate were taken
\* over and the others dropped
ReusePreviousActions_KeepsValid(event, state, reply) ==
  LET kept == SelectSeq(LastActions(state), ValidAction)
  IN IF event = "confirm_execute" /\ reply.actions = <<>> /\ kept # <<>>
     THEN [reply EXCEPT !.actions = kept,
                        !.status = "ready_to_execute",
                        !.requires_confirmation = TRUE,
                        !.assistant_message = IF @ = <<>> THEN MSG_USING_PREV ELSE @]
     ELSE reply

\* ReusePreviousActions as it would be if only the actions were taken over
ReusePreviousActions_KeepsStatus(event, state, reply) ==
  IF event = "confirm_execute" /\ reply.actions = <<>> /\ LastActions(state) # <<>>
     /\ \A i \in 1..Len(LastActions(state)) : ValidAction(LastActions(state)[i])
  THEN [reply EXCEPT !.actions = LastActions(state)]
  ELSE reply

\* "If user clicked Confirm and model forgot actions, reuse last prepared actions"
ReusePreviousActions(event, state, reply) ==
  IF event = "confirm_execute" /\ reply.actions = <<>> /\ LastActions(state) # <<>>
     /\ \A i \in 1..Len(LastActions(state)) : ValidAction(LastActions(state)[i])
  THEN [reply EXCEPT !.actions = LastActions(state),
                     !.status = "ready_to_execute",
                     !.requires_confirmation = TRUE,
                     !.assistant_message = IF @ = <<>> THEN MSG_USING_PREV ELSE @]
  ELSE reply

postprocess_reply(reply, user_text) ==
  IF reply.status = "need_clarification" /\ reply.questions = <<>>
  THEN LET am == strip(reply.assistant_message)
           t == lower(user_text)
       IN IF endswith(am, W_QMARK)
          THEN [reply EXCEPT !.questions = <<am>>, !.assistant_message = MSG_NEED_DETAIL]
          ELSE [reply EXCEPT !.questions =
                  (IF contains(t, W_SQUARE) /\ (contains(t, W_CM) \/ contains(t, W_MM))
                   THEN <<Q_SIDE_OR_AREA>> ELSE <<>>) \o <<Q_POSITION>>]
  ELSE reply

\* the reply main returns for the reply the model calls left it with
FinalReply(event, user_message, state, reply) ==
  postprocess_reply(
    ReusePreviousActions(event, state,
      EnsureConfirmation(GateDone(event, EnsurePlanQuestion(reply)))),
    user_message)

\* the content of the user turn appended to the history
UserTurn(event, user_message) ==
  IF event = "user_message" THEN Msg("user", Text(user_message))
  ELSE Msg("user", [t |-> "tagged", event |-> event, text |-> user_message])

\* json.dumps(reply.model_dump())
AssistantTurn(reply) == Msg("assistant", [t |-> "json", reply |-> reply])

\* Persisted as it would be if the two turns replaced the history
Persisted_Replaces(state, event, user_message, reply) ==
  LET s1 == ("last_status" :> reply.status) @@ state
      s2 == IF reply.actions # <<>> THEN ("last_actions" :> reply.actions) @@ s1 ELSE s1
  IN [s2 EXCEPT !["history"] = <<UserTurn(event, user_message), AssistantTurn(reply)>>]

\* "Persist breadcrumbs": the record main saves
Persisted(state, event, user_message, reply) ==
  LET s1 == ("last_status" :> reply.status) @@ state
      s2 == IF reply.actions # <<>> THEN ("last_actions" :> reply.actions) @@ s1 ELSE s1
  IN [s2 EXCEPT !["history"] =
        @ \o <<UserTurn(event, user_message), AssistantTurn(reply)>>]

----------------------------------------------------------------------------
(* Inputs of the runner: command lines and model answers *)

Events == {"user_message", "confirm_execute", "execution_result", "force_actions", "reset"}

SessionIds == {1}

\* the payloads of a command line: user_message with several texts, the other
\* events with one, and payloads that leave a key out
Payloads ==
  {[event |-> "user_message", user_message |-> t] : t \in {T_YES, T_NO, T_SQUARE}}
  \cup {[event |-> "confirm_execute", user_message |-> T_OK_TO_PROCEED],
        [event |-> "execution_result", user_message |-> T_RESULT_OK],
        [event |-> "force_actions", user_message |-> T_SQUARE],
        [event |-> "reset"],
        [user_message |-> T_OK_PAD]}

\* argv[2]: JSON that parses to a payload, or text that does not parse
CommandLines == {[ok |-> TRUE, payload |-> p] : p \in Payloads} \cup {[ok |-> FALSE]}

PayloadEvent(p) == IF "event" \in DOMAIN p THEN p.event ELSE "user_message"
PayloadText(p) == strip(IF "user_message" \in DOMAIN p THEN p.user_message ELSE <<>>)

ACTIONS_CIRCLE == <<ACT_SKETCH, ACT_CIRCLE>>

\* an add_circle whose params dict leaves out cx, cy and r: Action.model_validate
\* accepts it (params is any dict)
ACT_CIRCLE_NO_RADIUS == [action |-> "add_circle", params |-> [sketch_id |-> "sk_0"]]

\* replies a model may give that pass AgentReply.model_validate
ModelReplies ==
  {AgentReply("need_clarification", <<>>, <<>>, <<>>, <<>>, FALSE),
   AgentReply("need_clarification", AM_SUMMARY, <<Q_MODEL>>, <<>>, ACTIONS_CIRCLE, TRUE),
   AgentReply("need_clarification", AM_QUESTION, <<>>, <<>>, <<>>, FALSE),
   AgentReply("planned", <<>>, <<>>, <<"1. sketch">>, <<>>, FALSE),
   AgentReply("planned", AM_SUMMARY, <<Q_MODEL>>, <<"1. sketch">>, ACTIONS_CIRCLE, TRUE),
   AgentReply("planned", AM_SUMMARY, <<Q_CONFIRM_SHOUTED>>, <<"1. sketch">>, <<>>, FALSE),
   AgentReply("ready_to_execute", <<>>, <<>>, <<>>, <<>>, FALSE),
   AgentReply("ready_to_execute", AM_SUMMARY, <<>>, <<>>, ACTIONS_CIRCLE, TRUE),
   AgentReply("ready_to_execute", AM_SUMMARY, <<>>, <<>>, ACTIONS_CIRCLE, FALSE),
   AgentReply("ready_to_execute", AM_SUMMARY, <<>>, <<>>, <<ACT_CIRCLE_NO_RADIUS>>, TRUE),
   AgentReply("executing", <<>>, <<>>, <<>>, <<>>, FALSE),
   AgentReply("done", <<>>, <<>>, <<>>, <<>>, FALSE),
   AgentReply("done", AM_SUMMARY, <<Q_MODEL>>, <<"1. sketch">>, <<>>, FALSE),
   AgentReply("done", AM_SUMMARY, <<Q_MODEL>>, <<"1. sketch">>, <<ACT_RECT>>, FALSE)}

\* an answer the attempt fails on: the call raises (api_error), the content is
\* '' (empty) or other text that is not JSON (bad_json), or the parsed object
\* fails AgentReply.model_validate although it proposes actions (bad_schema)
FailedAnswer(k) ==
  IF k = "bad_schema" THEN [kind |-> k, actions |-> ACTIONS_CIRCLE] ELSE [kind |-> k]

\* one answer of client.chat.completions.create, by what the attempt makes of it
Answers(failures, replies) ==
  {FailedAnswer(k) : k \in failures} \cup {[kind |-> "valid", reply |-> r] : r \in replies}

----------------------------------------------------------------------------
(* The runner process *)

IDLE == [pc |-> "idle"]
NO_OUTPUT == [kind |-> "none"]
NO_REPLY == [status |-> "None"]

\* main from its entry to the first model call (or to an early exit), in a
\* fresh process
Spawn(session_id, cmd, has_key) ==
  /\ runs' = runs + 1
  /\ IF ~cmd.ok
     THEN /\ out' = [kind |-> "payload_error", code |-> 3, reply |-> PAYLOAD_ERROR_REPLY,
                     session_id |-> session_id]
          /\ rn' = IDLE
     ELSE LET event == PayloadEvent(cmd.payload)
              user_message == PayloadText(cmd.payload)
              state == load_state(files, session_id)
          IN IF ~has_key
             THEN /\ out' = [kind |-> "exception", code |-> 0, reply |-> ERROR_REPLY,
                             session_id |-> session_id, event |-> event,
                             user_message |-> user_message, state |-> state,
                             raised |-> "no_api_key"]
                  /\ rn' = IDLE
             ELSE /\ out' = NO_OUTPUT
                  /\ rn' = [pc |-> "ask", session_id |-> session_id, event |-> event,
                            user_message |-> user_message, state |-> state,
                            plan_confirmed |-> plan_confirmed(event, user_message, state),
                            messages |-> FirstMessages(state, event, user_message),
                            pass |-> 1, attempt |-> 1, calls |-> 1, reply |-> NO_REPLY,
                            content_prev |-> NO_OUTPUT, errors_for_model |-> "None",
                            failed |-> NO_OUTPUT]

\* the answers whose content does not parse or does not validate
ParseFailures == {"empty", "bad_json", "bad_schema"}

\* AttemptMessages as it would be if the previous output were never fed back
AttemptMessages_NoPreviousOutput ==
  rn.messages
  \o (IF rn.attempt > 1
      THEN <<FIX_BLOCK>>
           \o (IF rn.errors_for_model # "None"
               THEN <<Msg("user", [t |-> "errors", error |-> rn.errors_for_model])>>
               ELSE <<>>)
      ELSE <<>>)

\* the messages of the attempt the runner is about to make
AttemptMessages ==
  rn.messages
  \o (IF rn.attempt > 1
      THEN <<FIX_BLOCK>>
           \o (IF rn.content_prev.kind \in {"bad_json", "bad_schema"}
               THEN <<Msg("user", [t |-> "previous_output", content |-> rn.content_prev])>>
               ELSE <<>>)
           \o (IF rn.errors_for_model # "None"
               THEN <<Msg("user", [t |-> "errors", error |-> rn.errors_for_model])>>
               ELSE <<>>)
      ELSE <<>>)

\* the model call raises (transport, timeout): nothing in ask_model_with_retries
\* catches it, main's handler prints the error reply
ModelCallRaises ==
  /\ rn.pc = "ask"
  /\ out' = [kind |-> "exception", code |-> 0, reply |-> ERROR_REPLY,
             session_id |-> rn.session_id, event |-> rn.event,
             user_message |-> rn.user_message, state |-> rn.state,
             raised |-> "model_call", calls |-> rn.calls]
  /\ rn' = IDLE
  /\ UNCHANGED <<files, runs>>

\* an attempt whose output does not parse or validate, with attempts left
AttemptFails(answer) ==
  /\ rn.pc = "ask"
  /\ answer.kind \in ParseFailures
  /\ rn.attempt < MAX_TRIES
  /\ rn' = [rn EXCEPT !.attempt = @ + 1, !.calls = @ + 1, !.content_prev = answer,
                      !.errors_for_model = IF answer.kind = "bad_schema"
                                           THEN "ValidationError" ELSE "JSON parse error",
                      !.failed = answer]
  /\ UNCHANGED <<files, out, runs>>

\* the answer ends the retry loop: it validates, or it fails on the last attempt
EndsLoop(answer) ==
  \/ answer.kind = "valid"
  \/ answer.kind \in ParseFailures /\ rn.attempt = MAX_TRIES

\* AskResult as it would be if the canned reply took over the actions of the
\* failed attempt
AskResult_KeepsActions(answer) ==
  IF answer.kind = "valid" THEN answer.reply
  ELSE IF "actions" \in DOMAIN answer
    THEN [FALLBACK_REPLY EXCEPT !.actions = answer.actions]
  ELSE FALLBACK_REPLY

\* what ask_model_with_retries returns for the answer of its last attempt
AskResult(answer) == IF answer.kind = "valid" THEN answer.reply ELSE FALLBACK_REPLY

\* NeedsSecondPass as it would be if an approval were not asked for
NeedsSecondPass_Unasked(reply) ==
  rn.pass = 1
  /\ (reply.status # "ready_to_execute" \/ reply.actions = <<>>)

\* "If still only planned after an approval, force a 2nd pass"
NeedsSecondPass(reply) ==
  rn.pass = 1 /\ rn.plan_confirmed
  /\ (reply.status # "ready_to_execute" \/ reply.actions = <<>>)

\* the first pass returns and main starts the corrective pass
SecondPass(answer) ==
  /\ rn.pc = "ask"
  /\ EndsLoop(answer)
  /\ NeedsSecondPass(AskResult(answer))
  /\ rn' = [rn EXCEPT !.pass = 2, !.attempt = 1, !.calls = @ + 1,
                      !.reply = AskResult(answer),
                      !.messages = @ \o <<MUST_DIRECTIVE>>,
                      !.content_prev = NO_OUTPUT, !.errors_for_model = "None",
                      !.failed = NO_OUTPUT]
  /\ UNCHANGED <<files, out, runs>>

\* ChosenReply as it would be if the corrective pass's reply always won
ChosenReply_LastWins(got) == got

\* the reply main goes on with after the passes: the corrective pass's reply
\* replaces the first only if it carries actions
ChosenReply(got) == IF rn.pass = 2 /\ got.actions = <<>> THEN rn.reply ELSE got

\* the last model call returns: main gates and repairs the reply, saves the
\* session record and prints the reply
Finish(answer) ==
  /\ rn.pc = "ask"
  /\ EndsLoop(answer)
  /\ ~NeedsSecondPass(AskResult(answer))
  /\ LET reply == ChosenReply(AskResult(answer))
         final == FinalReply(rn.event, rn.user_message, rn.state, reply)
     IN /\ files' = save_state(files, rn.session_id,
                               Persisted(rn.state, rn.event, rn.user_message, final))
        /\ out' = [kind |-> "reply", code |-> 0, reply |-> final,
                   session_id |-> rn.session_id, event |-> rn.event,
                   user_message |-> rn.user_message, state |-> rn.state,
                   model_reply |-> reply,
                   pass |-> rn.pass, attempt |-> rn.attempt, calls |-> rn.calls,
                   answer |-> answer,
                   first_reply |-> IF rn.pass = 2 THEN rn.reply ELSE AskResult(answer),
                   last_reply |-> AskResult(answer),
                   messages |-> rn.messages, sent |-> AttemptMessages,
                   failed |-> rn.failed,
                   before_gate |-> EnsurePlanQuestion(reply),
                   after_gate |-> GateDone(rn.event, EnsurePlanQuestion(reply))]
  /\ rn' = IDLE
  /\ UNCHANGED runs

\* one model call of the running process and all main does until the next
RunnerStep(answers) ==
  \E answer \in answers :
    \/ answer.kind = "api_error" /\ ModelCallRaises
    \/ AttemptFails(answer)
    \/ SecondPass(answer)
    \/ Finish(answer)

----------------------------------------------------------------------------
(* String literals of AgentAddIn1.py *)

\* 'Agent call failed: ' (the exception text that follows is left out)
MSG_AGENT_FAILED ==
  <<"A","g","e","n","t"," ","c","a","l","l"," ","f","a","i","l","e","d",":"," ">>

\* 'Unsupported event ' (the quoted event name that follows is kept beside it)
MSG_UNSUPPORTED ==
  <<"U","n","s","u","p","p","o","r","t","e","d"," ","e","v","e","n","t"," ">>

MSG_GENERATED ==
  <<"G","e","n","e","r","a","t","e","d"," ","a","c","t","i","o","n","s"," ","f","r","o","m",
    " ","y","o","u","r"," ","r","e","q","u","e","s","t","."," ","E","x","e","c","u","t","i",
    "n","g"," ","n","o","w",".">>

MSG_DEFAULTS ==
  <<"U","s","i","n","g"," ","d","e","f","a","u","l","t"," ","a","c","t","i","o","n","s"," ",
    "b","a","s","e","d"," ","o","n"," ","y","o","u","r"," ","r","e","q","u","e","s","t",".",
    " ","E","x","e","c","u","t","i","n","g"," ","n","o","w",".">>

MSG_NO_ACTIONS ==
  <<"I"," ","c","o","u","l","d","n","'","t"," ","g","e","n","e","r","a","t","e"," ","a","c",
    "t","i","o","n","s","."," ","P","l","e","a","s","e"," ","b","e"," ","m","o","r","e"," ",
    "s","p","e","c","i","f","i","c"," ","a","b","o","u","t"," ","w","h","a","t"," ","y","o",
    "u"," ","w","a","n","t"," ","t","o"," ","c","r","e","a","t","e",".">>

Q_SHAPE ==
  <<"W","h","a","t"," ","s","h","a","p","e"," ","d","o"," ","y","o","u"," ","w","a","n","t",
    " ","t","o"," ","c","r","e","a","t","e"," ","(","s","q","u","a","r","e",","," ","c","i",
    "r","c","l","e",","," ","r","e","c","t","a","n","g","l","e",")","?">>

Q_SIZE ==
  <<"W","h","a","t"," ","s","i","z","e"," ","(","e",".","g",".",","," ","2","c","m",","," ",
    "2","0","m","m",")","?">>

W_RECTANGLE ==
  <<"r","e","c","t","a","n","g","l","e">>

W_CIRCLE ==
  <<"c","i","r","c","l","e">>

----------------------------------------------------------------------------
(* The add-in (AgentAddIn1.py) *)

\* palette events handled in one behaviour
MaxNotifies == 2

\* sessions opened (CommandCreatedHandler) in one behaviour
MaxSessions == 1

\* what call_agent returns when the process fails, times out or prints no JSON
AGENT_FAILED_REPLY == [status |-> "need_clarification", assistant_message |-> MSG_AGENT_FAILED]

\* reply["actions"] when it is a non-empty list, else nothing
ReplyActions(reply) == IF "actions" \in DOMAIN reply THEN reply.actions ELSE <<>>

\* "create default actions based on user input"
DefaultActions(user_message) ==
  LET user_lower == lower(user_message)
  IN IF contains(user_lower, W_SQUARE) \/ contains(user_lower, W_RECTANGLE)
     THEN <<ACT_SKETCH, ACT_RECT>>
     ELSE IF contains(user_lower, W_CIRCLE) THEN <<ACT_SKETCH, ACT_CIRCLE>>
     ELSE <<>>

\* how an execution attempt ends: execute_actions returns, execute_actions
\* catches an exception of the CAD host, FusionActionExecutor() raises
ExecOutcomes == {"ok", "execution_error", "no_design"}

\* json.dumps({"ok": success, "details": details})
ResultText(outcome) ==
  IF outcome = "ok" THEN T_RESULT_OK
  ELSE IF outcome = "execution_error" THEN T_RESULT_EXEC_ERROR
  ELSE T_RESULT_NO_EXECUTOR

\* (reported and proposed are not fields of the add-in: reported records the
\* action lists whose execution_result event a runner has processed, proposed
\* the action lists the add-in has received or made since the session id was
\* created)
HOST_IDLE == [pc |-> "idle", session_id |-> 0, sessions |-> 0, last_actions |-> <<>>,
              stage |-> "none", event |-> "none", user_message |-> <<>>,
              reported |-> {}, proposed |-> {}]

UI_NONE == [event |-> "none", sent |-> <<>>, calls |-> <<>>, replies |-> <<>>,
            executed |-> <<>>]

\* the handler returns: the add-in is idle again
Settle(h, u, killed) ==
  /\ host' = [h EXCEPT !.pc = "idle", !.stage = "none"]
  /\ ui' = u
  /\ rn' = IDLE
  /\ out' = IF killed THEN NO_OUTPUT ELSE out
  /\ UNCHANGED <<files, runs>>

\* AgentCommunicator.call_agent, up to subprocess.run: a runner process starts
CallAgent(h, u, event, user_message) ==
  /\ \E has_key \in BOOLEAN :
       Spawn(h.session_id,
             [ok |-> TRUE, payload |-> [event |-> event, user_message |-> user_message]],
             has_key)
  /\ host' = [h EXCEPT !.pc = "call"]
  /\ ui' = [u EXCEPT !.calls = Append(@, [event |-> event, user_message |-> user_message])]
  /\ UNCHANGED files

\* ExecuteAndReport as it would be if the result were not reported
ExecuteAndReport_Silent(h, u, actions) ==
  \E outcome \in ExecOutcomes :
    Settle(h, [u EXCEPT !.executed = Append(@, [actions |-> actions, outcome |-> outcome])],
           FALSE)

\* "Execute actions" and "Report execution result"
ExecuteAndReport(h, u, actions) ==
  \E outcome \in ExecOutcomes :
    CallAgent([h EXCEPT !.stage = "result"],
              [u EXCEPT !.executed = Append(@, [actions |-> actions, outcome |-> outcome])],
              "execution_result", ResultText(outcome))

GENERATED_PAYLOAD(actions) ==
  AgentReply("ready_to_execute", MSG_GENERATED, <<>>, <<>>, actions, TRUE)
DEFAULTS_PAYLOAD(actions) ==
  AgentReply("ready_to_execute", MSG_DEFAULTS, <<>>, <<>>, actions, TRUE)
NO_ACTIONS_PAYLOAD ==
  AgentReply("need_clarification", MSG_NO_ACTIONS, <<Q_SHAPE, Q_SIZE, Q_PLANE>>, <<>>, <<>>, FALSE)

\* ConfirmsExecution as it would be if every event went on to execution
ConfirmsExecution_Always(event) == TRUE

\* "Handle execution confirmation": the branch is taken for confirm_execute only
ConfirmsExecution(event) == event = "confirm_execute"

\* NoActionsAtAll as it would be without its return: execution goes on
NoActionsAtAll_FallsThrough(h, u, killed) ==
  ExecuteAndReport(h, [u EXCEPT !.sent = Append(@, NO_ACTIONS_PAYLOAD)], <<>>)

\* "Still no actions - ask for clarification", and return
NoActionsAtAll(h, u, killed) ==
  Settle(h, [u EXCEPT !.sent = Append(@, NO_ACTIONS_PAYLOAD)], killed)

\* handle_agent_event from the return of a call_agent to the next call_agent,
\* or to its end
HostResume(reply, killed) ==
  LET u0 == [ui EXCEPT !.replies = Append(@, reply)]
  IN CASE host.stage = "first" ->
            LET u1 == [u0 EXCEPT !.sent = Append(@, reply)]
                h1 == [host EXCEPT !.last_actions =
                         IF ReplyActions(reply) # <<>> THEN ReplyActions(reply) ELSE @,
                                   !.proposed = @ \cup ({ReplyActions(reply)} \ {<<>>})]
                actions == IF ReplyActions(reply) # <<>> THEN ReplyActions(reply)
                           ELSE h1.last_actions
            IN IF ~ConfirmsExecution(host.event) THEN Settle(h1, u1, killed)
               ELSE IF actions = <<>>
                 THEN CallAgent([h1 EXCEPT !.stage = "force"], u1, "force_actions",
                                FORCE_PREFIX \o host.user_message \o FORCE_SUFFIX)
               ELSE ExecuteAndReport(h1, u1, actions)
       [] host.stage = "force" ->
            LET forced == ReplyActions(reply)
                defaults == DefaultActions(host.user_message)
            IN IF forced # <<>>
               THEN ExecuteAndReport([host EXCEPT !.last_actions = forced,
                                                  !.proposed = @ \cup {forced}],
                                     [u0 EXCEPT !.sent = Append(@, GENERATED_PAYLOAD(forced))],
                                     forced)
               ELSE IF defaults # <<>>
                 THEN ExecuteAndReport([host EXCEPT !.last_actions = defaults,
                                                    !.proposed = @ \cup {defaults}],
                                       [u0 EXCEPT !.sent = Append(@, DEFAULTS_PAYLOAD(defaults))],
                                       defaults)
               ELSE NoActionsAtAll(host, u0, killed)
       [] host.stage = "result" ->
            Settle([host EXCEPT !.reported =
                      IF ~killed /\ out.kind = "reply"
                      THEN @ \cup {ui.executed[Len(ui.executed)].actions} ELSE @],
                   [u0 EXCEPT !.sent = Append(@, reply)], killed)

\* CommandCreatedHandler.notify: a new session id, the palette, the welcome
CommandCreated ==
  /\ host.pc = "idle"
  /\ host.sessions < MaxSessions
  /\ host' = [host EXCEPT !.sessions = @ + 1, !.session_id = host.sessions + 1,
                          !.proposed = {}]
  /\ ui' = [UI_NONE EXCEPT !.event = "command_created",
                           !.sent = <<[status |-> "need_clarification", welcome |-> TRUE]>>]
  /\ UNCHANGED <<files, rn, out, runs, notifies, norm, peers, exec>>

\* times the command is created again in one behaviour
MaxReopens == 1

\* CommandCreatedHandler.notify when the command is started again in the same
\* process: a new session id, everything else of _state as it was
CommandCreatedAgain ==
  /\ host.pc = "idle"
  /\ host.sessions >= MaxSessions
  /\ host.sessions < MaxSessions + MaxReopens
  /\ host' = [host EXCEPT !.sessions = @ + 1, !.session_id = host.sessions + 1,
                          !.proposed = {}]
  /\ ui' = [UI_NONE EXCEPT !.event = "command_created",
                           !.sent = <<[status |-> "need_clarification", welcome |-> TRUE]>>]
  /\ UNCHANGED <<files, rn, out, runs, notifies, norm, peers, exec>>

\* PaletteHTMLHandler.notify, up to the first call_agent
Notify(event, text) ==
  /\ host.pc = "idle"
  /\ host.session_id # 0
  /\ notifies < MaxNotifies
  /\ notifies' = notifies + 1
  /\ UNCHANGED <<norm, peers, exec>>
  /\ LET user_message == strip(text)
         u == [UI_NONE EXCEPT !.event = event,
                              !.sent = <<[ack |-> event, questions |-> <<>>,
                                          plan |-> <<>>, actions |-> <<>>]>>]
     IN IF event = "user_message"
        THEN CallAgent([host EXCEPT !.stage = "first", !.event = event,
                                    !.user_message = user_message],
                       u, "user_message", user_message)
        ELSE IF event = "confirm_execute"
        THEN CallAgent([host EXCEPT !.stage = "first", !.event = event,
                                    !.user_message = T_OK_TO_PROCEED],
                       u, "confirm_execute", T_OK_TO_PROCEED)
        ELSE /\ ui' = [u EXCEPT !.sent = Append(@, [status |-> "need_clarification",
                                                     assistant_message |-> MSG_UNSUPPORTED,
                                                     unsupported |-> event])]
             /\ UNCHANGED <<files, rn, out, runs, host>>

\* subprocess.run returns with the runner's output
AgentReturns ==
  /\ host.pc = "call"
  /\ rn.pc = "idle"
  /\ UNCHANGED <<notifies, norm, peers, exec>>
  /\ HostResume(IF out.code = 0 THEN out.reply ELSE AGENT_FAILED_REPLY, FALSE)

\* subprocess.run times out (REQUEST_TIMEOUT) while the runner waits for the
\* model: the process is killed, call_agent returns its error reply
AgentTimesOut ==
  /\ host.pc = "call"
  /\ rn.pc = "ask"
  /\ UNCHANGED <<notifies, norm, peers, exec>>
  /\ HostResume(AGENT_FAILED_REPLY, TRUE)

\* what the palette can send
UIEvents == {"user_message", "confirm_execute", "reset"}
UITexts == {T_YES, T_SQUARE}

\* replies of the model in the runs the add-in starts
HostModelReplies ==
  {AgentReply("need_clarification", AM_SUMMARY, <<Q_MODEL>>, <<>>, <<>>, FALSE),
   AgentReply("planned", AM_SUMMARY, <<>>, <<"1. sketch">>, <<>>, FALSE),
   AgentReply("planned", AM_SUMMARY, <<>>, <<"1. sketch">>, <<ACT_RECT>>, FALSE),
   AgentReply("ready_to_execute", AM_SUMMARY, <<>>, <<>>, ACTIONS_CIRCLE, TRUE),
   AgentReply("done", AM_SUMMARY, <<>>, <<>>, <<>>, FALSE)}

----------------------------------------------------------------------------
(* Repair of a parsed model output: the actions filter *)

\* dict.get(key) with None for a missing key
Get(d, key) == IF key \in DOMAIN d THEN d[key] ELSE "None"

\* the test of filter_allowed_actions on one entry
IsAllowedEntry(a) == IsDict(a) /\ Get(a, "action") \in AllowedActions

\* filter_allowed_actions: raw["actions"] becomes the list of the entries that
\* are dicts of an allowed kind, or [] when the candidate is not a list
filter_allowed_actions(raw) ==
  LET actions == IF "actions" \in DOMAIN raw THEN raw.actions ELSE JList(<<>>)
  IN IF IsList(actions)
     THEN ("actions" :> JList(SelectSeq(actions.list, IsAllowedEntry))) @@ raw
     ELSE ("actions" :> JList(<<>>)) @@ raw

\* the actions part of AgentReply.model_validate: every entry is an Action
ValidActionList(actions) ==
  IsList(actions) /\ \A i \in 1..Len(actions.list) : ValidAction(actions.list[i])

\* entries a model may put in "actions": a valid action, one of an unknown
\* kind, one without params, one with params null, one without a kind, and a
\* bare string
ENTRY_UNKNOWN_KIND == [action |-> "delete_body", params |-> [body |-> "b0"]]
ENTRY_NO_PARAMS == [action |-> "add_circle"]
ENTRY_NULL_PARAMS == [action |-> "add_text", params |-> JOther("null")]
ENTRY_NO_KIND == [params |-> [plane |-> "XY"]]
ENTRY_STRING == JOther("string")

CandidateEntries ==
  {ACT_SKETCH, ACT_CIRCLE, ENTRY_UNKNOWN_KIND, ENTRY_NO_PARAMS, ENTRY_NULL_PARAMS,
   ENTRY_NO_KIND, ENTRY_STRING}

\* the longest candidate list
MaxCandidateLen == 2

CandidateLists ==
  UNION {[1..n -> CandidateEntries] : n \in 0..MaxCandidateLen}

\* parsed objects handed to filter_allowed_actions: "actions" a list, a
\* string, null, or absent
RawReplies ==
  {[status |-> JStr(S_READY), actions |-> JList(l)] : l \in CandidateLists}
  \cup {[status |-> JStr(S_READY), actions |-> JOther(type)] :
          type \in {"string", "null"}}
  \cup {[status |-> JStr(S_READY)]}

\* no runner processes side by side
NO_PEERS == <<>>

\* no execution of an action list
EXEC_IDLE == [pc |-> "idle"]

NORM_IDLE == [pc |-> "idle"]

\* json.loads has returned an object
InitFilter ==
  /\ files = <<>>
  /\ rn = IDLE
  /\ out = NO_OUTPUT
  /\ runs = 0
  /\ host = HOST_IDLE
  /\ ui = UI_NONE
  /\ notifies = 0
  /\ norm \in {[pc |-> "parsed", raw |-> raw] : raw \in RawReplies}
  /\ peers = NO_PEERS
  /\ exec = EXEC_IDLE

\* parsed = filter_allowed_actions(parsed)
Filter ==
  /\ norm.pc = "parsed"
  /\ norm' = [pc |-> "filtered", raw |-> norm.raw,
              result |-> filter_allowed_actions(norm.raw)]
  /\ UNCHANGED <<files, rn, out, runs, host, ui, notifies, peers, exec>>

\* AgentReply.model_validate(parsed), as far as the actions decide it
Validate ==
  /\ norm.pc = "filtered"
  /\ norm' = [pc |-> "validated", raw |-> norm.raw, result |-> norm.result,
              valid |-> ValidActionList(norm.result.actions)]
  /\ UNCHANGED <<files, rn, out, runs, host, ui, notifies, peers, exec>>

NextFilter == Filter \/ Validate

SpecFilter == InitFilter /\ [][NextFilter]_vars

----------------------------------------------------------------------------
(* Repair of a model output: finding the JSON object in the text *)

\* the backtick character, which a TLA+ string cannot hold
BT == "BT"

\* a code fence: three backticks
FENCE ==
  <<BT,BT,BT>>

\* 'json', the optional language tag of a fence
W_JSON ==
  <<"j","s","o","n">>

PROSE_BEFORE ==
  <<"H","e","r","e",":"," ">>

FENCE_OPEN_JSON ==
  <<BT,BT,BT,"j","s","o","n","\n">>

FENCE_OPEN_UPPER ==
  <<BT,BT,BT,"J","S","O","N"," ">>

PROSE_AFTER ==
  <<" ","o","k">>

FENCE_CLOSE ==
  <<"\n",BT,BT,BT>>

OBJ_EMPTY ==
  <<"{","}">>

OBJ_FLAT ==
  <<"{","\"","a","\"",":","1","}">>

OBJ_NESTED ==
  <<"{","\"","a","\"",":","{","\"","b","\"",":","2","}","}">>

OBJ_STRING ==
  <<"{","\"","a","\"",":","\"","x","\"","}">>

\* an object with a closing brace inside a string value
OBJ_CLOSE_IN_STRING ==
  <<"{","\"","a","\"",":","\"","}","\"","}">>

\* an object with an opening brace inside a string value
OBJ_OPEN_IN_STRING ==
  <<"{","\"","a","\"",":","\"","{","\"","}">>

TXT_PROSE ==
  <<"n","o"," ","j","s","o","n">>

TXT_PADDED ==
  <<" "," ","p","l","a","i","n"," ","\n">>

TXT_PLAIN ==
  <<"p","l","a","i","n">>

TXT_FENCED_PROSE ==
  <<BT,BT,BT,"j","s","o","n","\n","p","l","a","i","n","\n",BT,BT,BT>>

TXT_UNBALANCED ==
  <<"{","\"","a","\"",":","1">>

\* s[n:]
Drop(t, n) == SubSeq(t, n + 1, Len(t))

\* the re.sub of strip_code_fences on text.strip(), then strip():
\* an opening fence with its tag and the whitespace after it is removed at the
\* start, a closing fence with the whitespace before it at the end
strip_code_fences(text) ==
  IF text = <<>> THEN text
  ELSE LET s0 == strip(text)
           s1 == IF startswith(s0, FENCE)
                 THEN LET r == Drop(s0, 3)
                      IN lstrip(IF startswith(lower(r), W_JSON) THEN Drop(r, 4) ELSE r)
                 ELSE s0
           s2 == IF endswith(s1, FENCE) THEN rstrip(SubSeq(s1, 1, Len(s1) - 3)) ELSE s1
       IN strip(s2)

\* str.find, 1-based, 0 when the character is absent
RECURSIVE FindFrom(_, _, _)
FindFrom(s, c, i) ==
  IF i > Len(s) THEN 0 ELSE IF s[i] = c THEN i ELSE FindFrom(s, c, i + 1)

\* the loop of extract_json_object: the index of the brace that brings the
\* depth back to 0, or 0 when the text ends first
RECURSIVE ClosingBrace(_, _, _)
ClosingBrace(s, i, depth) ==
  IF i > Len(s) THEN 0
  ELSE IF s[i] = "{" THEN ClosingBrace(s, i + 1, depth + 1)
  ELSE IF s[i] = "}"
    THEN IF depth - 1 = 0 THEN i ELSE ClosingBrace(s, i + 1, depth - 1)
  ELSE ClosingBrace(s, i + 1, depth)

extract_json_object(text) ==
  LET s == strip_code_fences(text)
      start == FindFrom(s, "{", 1)
  IN IF start = 0 THEN s
     ELSE LET end == ClosingBrace(s, start, 0)
          IN IF end = 0 THEN s ELSE SubSeq(s, start, end)

\* what may stand before and after the object in a model output
Prefixes == {<<>>, PROSE_BEFORE, FENCE_OPEN_JSON, FENCE_OPEN_UPPER}
Suffixes == {<<>>, PROSE_AFTER, FENCE_CLOSE}

\* JSON objects, as text
ObjectTexts ==
  {OBJ_EMPTY, OBJ_FLAT, OBJ_NESTED, OBJ_STRING, OBJ_CLOSE_IN_STRING, OBJ_OPEN_IN_STRING}

\* model outputs: one object with something around it (object: the object's
\* text), or a text without a balanced object (bare: the text without fences
\* and outer whitespace)
OutputTexts ==
  {[content |-> pre \o obj \o post, object |-> obj] :
     pre \in Prefixes, obj \in ObjectTexts, post \in Suffixes}
  \cup {[content |-> TXT_PROSE, bare |-> TXT_PROSE],
        [content |-> TXT_PADDED, bare |-> TXT_PLAIN],
        [content |-> TXT_FENCED_PROSE, bare |-> TXT_PLAIN],
        [content |-> TXT_UNBALANCED, bare |-> TXT_UNBALANCED],
        [content |-> <<>>, bare |-> <<>>]}

\* resp.choices[0].message.content has arrived
InitExtract ==
  /\ files = <<>>
  /\ rn = IDLE
  /\ out = NO_OUTPUT
  /\ runs = 0
  /\ host = HOST_IDLE
  /\ ui = UI_NONE
  /\ notifies = 0
  /\ norm \in {[pc |-> "content", input |-> o] : o \in OutputTexts}
  /\ peers = NO_PEERS
  /\ exec = EXEC_IDLE

\* raw_text = extract_json_object(content)
Extract ==
  /\ norm.pc = "content"
  /\ norm' = [pc |-> "extracted", input |-> norm.input,
              raw_text |-> extract_json_object(norm.input.content)]
  /\ UNCHANGED <<files, rn, out, runs, host, ui, notifies, peers, exec>>

NextExtract == Extract

SpecExtract == InitExtract /\ [][NextExtract]_vars

----------------------------------------------------------------------------
(* Repair of a parsed model output: defaults and type coercions *)

\* questions given as one string
RAW_QUESTIONS ==
  <<"W","h","i","c","h"," ","p","l","a","n","e","?"," ","W","h","i","c","h"," ","s","i","z",
    "e","?","\n","W","h","e","r","e","?">>

\* a plan given as one string
RAW_PLAN ==
  <<"1","."," ","s","k","e","t","c","h","\n"," ","-"," ","e","x","t","r","u","d","e","\n">>

\* the characters normalize_types strips from a plan line
PLAN_STRIP ==
  <<" ","-","\t">>

RC_TRUE ==
  <<"t","r","u","e">>

RC_YES_PADDED ==
  <<" ","Y","e","s"," ">>

RC_ONE ==
  <<"1">>

RC_NO ==
  <<"n","o">>

RC_YES ==
  <<"y","e","s">>

\* the members of StatusT, as JSON strings
StatusTexts == {S_NEED, S_PLANNED, S_READY, S_EXECUTING, S_DONE}

\* coerce_defaults: dict.setdefault for the five optional keys
coerce_defaults(d) ==
  d @@ [assistant_message |-> JStr(<<>>), questions |-> JList(<<>>), plan |-> JList(<<>>),
        actions |-> JList(<<>>), requires_confirmation |-> JBool(FALSE)]

\* re.split at every line break and, when after_q, at whitespace that follows
\* a question mark
RECURSIVE Split(_, _, _, _)
Split(s, i, cur, after_q) ==
  IF i > Len(s) THEN <<cur>>
  ELSE IF \/ s[i] \in {"\n", "\r"}
          \/ after_q /\ IsSpace(s[i]) /\ i > 1 /\ s[i - 1] = "?"
    THEN <<cur>> \o Split(s, i + 1, <<>>, after_q)
  ELSE Split(s, i + 1, Append(cur, s[i]), after_q)

\* str.strip(chars)
RECURSIVE StripChars(_, _)
StripChars(t, chars) ==
  IF t # <<>> /\ Head(t) \in Range(chars) THEN StripChars(Tail(t), chars)
  ELSE IF t # <<>> /\ t[Len(t)] \in Range(chars)
    THEN StripChars(SubSeq(t, 1, Len(t) - 1), chars)
  ELSE t

\* the pieces that are not blank
NonBlank(pieces) == SelectSeq(pieces, LAMBDA piece : strip(piece) # <<>>)

\* NormalizeQuestions as it would be if a value that is not a string were
\* wrapped in a list
NormalizeQuestions_Wraps(q) ==
  IF IsStr(q)
  THEN LET pieces == NonBlank(Split(q.text, 1, <<>>, TRUE))
       IN JList([i \in 1..Len(pieces) |-> JStr(strip(pieces[i]))])
  ELSE JList(<<q>>)

\* "questions": a string is split into lines and questions, a value that is
\* no list becomes []
NormalizeQuestions(q) ==
  IF IsStr(q)
  THEN LET pieces == NonBlank(Split(q.text, 1, <<>>, TRUE))
       IN JList([i \in 1..Len(pieces) |-> JStr(strip(pieces[i]))])
  ELSE IF ~IsList(q) THEN JList(<<>>)
  ELSE q

\* "plan": a string is split into lines, a value that is no list becomes []
NormalizePlan(p) ==
  IF IsStr(p)
  THEN LET pieces == NonBlank(Split(p.text, 1, <<>>, FALSE))
       IN JList([i \in 1..Len(pieces) |-> JStr(StripChars(pieces[i], PLAN_STRIP))])
  ELSE IF ~IsList(p) THEN JList(<<>>)
  ELSE p

\* "actions": a string is replaced by what json.loads makes of it ([] when it
\* does not parse), a value that is no list becomes []
NormalizeActions(a) ==
  IF IsStr(a) THEN (IF "loads" \in DOMAIN a THEN a.loads ELSE JList(<<>>))
  ELSE IF ~IsList(a) THEN JList(<<>>)
  ELSE a

\* "requires_confirmation": a string is true when it says true, yes or 1, a
\* value that is no boolean becomes false
NormalizeFlag(rc) ==
  IF IsStr(rc) THEN JBool(lower(strip(rc.text)) \in {RC_TRUE, RC_YES, RC_ONE})
  ELSE IF ~IsBool(rc) THEN JBool(FALSE)
  ELSE rc

\* dict.get(key) on a parsed object, null for a missing key
JGet(d, key) == IF key \in DOMAIN d THEN d[key] ELSE JOther("null")

\* the value can be hashed: a list or a dict cannot
Hashable(v) == ~IsList(v) /\ ~IsDict(v)

TYPE_ERROR == [raised |-> "TypeError"]

\* normalize_types; the membership test on the status raises TypeError for a
\* status that is a list or a dict
normalize_types(raw) ==
  LET status == JGet(raw, "status")
  IN IF ~Hashable(status) THEN TYPE_ERROR
     ELSE [status |->
             IF IsStr(status) /\ status.text \in StatusTexts THEN status ELSE JStr(S_NEED),
           questions |-> NormalizeQuestions(JGet(raw, "questions")),
           plan |-> NormalizePlan(JGet(raw, "plan")),
           actions |-> NormalizeActions(JGet(raw, "actions")),
           requires_confirmation |-> NormalizeFlag(JGet(raw, "requires_confirmation"))]
          @@ raw

\* values a model may give for each key of its reply
RawStatuses == {JStr(S_PLANNED), JStr(S_FINISHED), JOther("null"), JList(<<JStr(S_PLANNED)>>)}
RawQuestions == {JList(<<JStr(Q_MODEL)>>), JStr(RAW_QUESTIONS), JOther("null")}
RawPlans == {JList(<<JStr(RAW_PLAN)>>), JStr(RAW_PLAN)}
RawActions ==
  {JList(<<ACT_SKETCH, ENTRY_UNKNOWN_KIND>>), JJson(JList(<<ACT_CIRCLE, ENTRY_STRING>>)),
   JJson(ACT_CIRCLE), JOther("string"), JOther("null")}
RawFlags ==
  {JBool(TRUE), JBool(FALSE), JStr(RC_TRUE), JStr(RC_YES_PADDED), JStr(RC_NO),
   JOther("number"), JOther("null"), JList(<<JBool(TRUE)>>), [value |-> JBool(TRUE)]}

\* the object with the keys whose value is not "absent"
WithKeys(status, questions, plan, actions, rc) ==
  LET all == [status |-> status, questions |-> questions, plan |-> plan,
              actions |-> actions, requires_confirmation |-> rc]
      keys == {k \in DOMAIN all : all[k] # JOther("absent")}
  IN [k \in keys |-> all[k]]

\* parsed model outputs: every key present with one of its values, or absent
ParsedObjects ==
  {WithKeys(s, q, p, a, rc) :
     s \in RawStatuses \cup {JOther("absent")},
     q \in RawQuestions \cup {JOther("absent")},
     p \in RawPlans \cup {JOther("absent")},
     a \in RawActions \cup {JOther("absent")},
     rc \in RawFlags \cup {JOther("absent")}}

\* json.loads has returned an object
InitNormalize ==
  /\ files = <<>>
  /\ rn = IDLE
  /\ out = NO_OUTPUT
  /\ runs = 0
  /\ host = HOST_IDLE
  /\ ui = UI_NONE
  /\ notifies = 0
  /\ norm \in {[pc |-> "parsed", raw |-> raw] : raw \in ParsedObjects}
  /\ peers = NO_PEERS
  /\ exec = EXEC_IDLE

\* parsed = coerce_defaults(parsed)
Coerce ==
  /\ norm.pc = "parsed"
  /\ "d" \notin DOMAIN norm
  /\ norm' = [pc |-> "coerced", raw |-> norm.raw, d |-> coerce_defaults(norm.raw)]
  /\ UNCHANGED <<files, rn, out, runs, host, ui, notifies, peers, exec>>

\* parsed = normalize_types(parsed)
Normalize ==
  /\ norm.pc = "coerced"
  /\ LET d == normalize_types(norm.d)
     IN norm' = [pc |-> IF d = TYPE_ERROR THEN "raised" ELSE "normalized",
                 raw |-> norm.raw, d |-> d]
  /\ UNCHANGED <<files, rn, out, runs, host, ui, notifies, peers, exec>>

\* parsed = filter_allowed_actions(parsed), on the normalized object
FilterNormalized ==
  /\ norm.pc = "normalized"
  /\ norm' = [pc |-> "filtered", raw |-> norm.raw, d |-> filter_allowed_actions(norm.d)]
  /\ UNCHANGED <<files, rn, out, runs, host, ui, notifies, peers, exec>>

NextNormalize == Coerce \/ Normalize \/ FilterNormalized

SpecNormalize == InitNormalize /\ [][NextNormalize]_vars

----------------------------------------------------------------------------
(* Specifications *)

Init ==
  /\ files = <<>>
  /\ rn = IDLE
  /\ out = NO_OUTPUT
  /\ runs = 0
  /\ host = HOST_IDLE
  /\ ui = UI_NONE
  /\ notifies = 0
  /\ norm = NORM_IDLE
  /\ peers = NO_PEERS
  /\ exec = EXEC_IDLE

\* a command line: agent_runner.py <session_id> <json_payload>
Invoke ==
  /\ rn.pc = "idle"
  /\ runs < MaxRuns
  /\ \E session_id \in SessionIds, cmd \in CommandLines, has_key \in BOOLEAN :
       Spawn(session_id, cmd, has_key)
  /\ UNCHANGED <<files, host, ui, notifies, norm, peers, exec>>

\* the model answers the runner a command line started
ModelAnswers ==
  /\ RunnerStep(Answers({"api_error", "empty", "bad_schema"}, ModelReplies))
  /\ UNCHANGED <<host, ui, notifies, norm, peers, exec>>

\* the runner alone, started from command lines
Next == Invoke \/ ModelAnswers

Spec == Init /\ [][Next]_vars

\* the model answers the runner the add-in started
ModelAnswersHost ==
  /\ RunnerStep(Answers({"api_error", "bad_json"}, HostModelReplies))
  /\ UNCHANGED <<host, ui, notifies, norm, peers, exec>>

PaletteEvent == \E event \in UIEvents, text \in UITexts : Notify(event, text)

\* the add-in and the runners it starts
NextHost ==
  CommandCreated \/ PaletteEvent \/ ModelAnswersHost \/ AgentReturns \/ AgentTimesOut

SpecHost == Init /\ [][NextHost]_vars

\* runs started on a session file written by hand or by another version
MaxReuseRuns == 1

\* a session file whose last_actions holds any entries, valid or not
InitReuse ==
  /\ files \in {save_state(<<>>, 1, [session_id |-> 1, history |-> <<>>,
                                      last_status |-> last_status, last_actions |-> prev])
                 : last_status \in {"planned", "ready_to_execute"}, prev \in CandidateLists}
  /\ rn = IDLE
  /\ out = NO_OUTPUT
  /\ runs = 0
  /\ host = HOST_IDLE
  /\ ui = UI_NONE
  /\ notifies = 0
  /\ norm = NORM_IDLE
  /\ peers = NO_PEERS
  /\ exec = EXEC_IDLE

\* a command line with a confirm_execute payload for the session
InvokeConfirm ==
  /\ rn.pc = "idle"
  /\ runs < MaxReuseRuns
  /\ Spawn(1, [ok |-> TRUE,
               payload |-> [event |-> "confirm_execute", user_message |-> T_OK_TO_PROCEED]],
           TRUE)
  /\ UNCHANGED <<files, host, ui, notifies, norm, peers, exec>>

NextReuse == InvokeConfirm \/ ModelAnswersHost

SpecReuse == InitReuse /\ [][NextReuse]_vars

\* the Execute button of the palette
ConfirmEvent == Notify("confirm_execute", T_YES)

\* the add-in when its command is started more than once
NextReopen ==
  \/ CommandCreated
  \/ CommandCreatedAgain
  \/ ConfirmEvent
  \/ ModelAnswersHost
  \/ AgentReturns
  \/ AgentTimesOut

SpecReopen == Init /\ [][NextReopen]_vars

----------------------------------------------------------------------------
(* The runner on a session that already has a history *)

MaxPastRuns == 6
MaxReplayRuns == 2

Digits == <<"1", "2", "3", "4", "5", "6", "7", "8", "9">>

\* the two turns an earlier run number j appended to the history
PastTurns(j) ==
  <<UserTurn("user_message", <<Digits[j]>>),
    AssistantTurn(AgentReply("need_clarification", <<Digits[j]>>, <<Q_MODEL>>, <<>>, <<>>, FALSE))>>

RECURSIVE PastHistory(_)
PastHistory(k) == IF k = 0 THEN <<>> ELSE PastHistory(k - 1) \o PastTurns(k)

\* the session record after k runs that each ended in need_clarification
PastState(session_id, k) ==
  IF k = 0 THEN [session_id |-> session_id, history |-> <<>>]
  ELSE [session_id |-> session_id, history |-> PastHistory(k),
        last_status |-> "need_clarification"]

\* the session file as earlier runs left it
InitMessages ==
  /\ \E k \in 0..MaxPastRuns :
       files = IF k = 0 THEN <<>> ELSE save_state(<<>>, 1, PastState(1, k))
  /\ rn = IDLE
  /\ out = NO_OUTPUT
  /\ runs = 0
  /\ host = HOST_IDLE
  /\ ui = UI_NONE
  /\ notifies = 0
  /\ norm = NORM_IDLE
  /\ peers = NO_PEERS
  /\ exec = EXEC_IDLE

\* payloads with two texts for every event
ReplayPayloads == {[event |-> e, user_message |-> t] : e \in Events, t \in {T_YES, T_SQUARE}}

\* a command line for the session
InvokeReplay ==
  /\ rn.pc = "idle"
  /\ runs < MaxReplayRuns
  /\ \E p \in ReplayPayloads : Spawn(1, [ok |-> TRUE, payload |-> p], TRUE)
  /\ UNCHANGED <<files, host, ui, notifies, norm, peers, exec>>

NextMessages == InvokeReplay \/ ModelAnswersHost

\* runs started in a behaviour that is checked for termination
MaxLiveRuns == 1

\* the record a run leaves that answered a first request with a plan
PLANNED_STATE ==
  Persisted(load_state(<<>>, 1), "user_message", T_SQUARE,
            FinalReply("user_message", T_SQUARE, load_state(<<>>, 1),
                       AgentReply("planned", AM_SUMMARY, <<>>, <<"1. sketch">>, <<>>, FALSE)))

\* no session file, or the file of a session whose plan awaits approval
InitLive ==
  /\ files \in {<<>>, save_state(<<>>, 1, PLANNED_STATE)}
  /\ rn = IDLE
  /\ out = NO_OUTPUT
  /\ runs = 0
  /\ host = HOST_IDLE
  /\ ui = UI_NONE
  /\ notifies = 0
  /\ norm = NORM_IDLE
  /\ peers = NO_PEERS
  /\ exec = EXEC_IDLE

\* a command line for the session
InvokeLive ==
  /\ rn.pc = "idle"
  /\ runs < MaxLiveRuns
  /\ \E p \in ReplayPayloads : Spawn(1, [ok |-> TRUE, payload |-> p], TRUE)
  /\ UNCHANGED <<files, host, ui, notifies, norm, peers, exec>>

NextLive == InvokeLive \/ ModelAnswersHost

\* the runner, every model call returning in the end (the HTTP client gives
\* up after its timeout)
SpecLive == InitLive /\ [][NextLive]_vars /\ WF_vars(ModelAnswersHost)

SpecMessages == InitMessages /\ [][NextMessages]_vars

----------------------------------------------------------------------------
(* Runner processes side by side: the session files between them *)

MaxPeers == 2
Procs == 1..MaxPeers

\* session ids of a command line
ID_A == <<"a">>
ID_B == <<"b">>
ID_DOT_A == <<".", "/", "a">>
PairSessionIds == {ID_A, ID_B, ID_DOT_A}

EXT_JSON == <<".", "j", "s", "o", "n">>

\* a part of a path as pathlib keeps it: empty parts and "." are dropped
KeptPart(part) == IF part \in {<<>>, <<".">>} THEN <<>> ELSE <<part>>

\* the parts of a path text, split at "/"
RECURSIVE PathParts(_, _)
PathParts(t, cur) ==
  IF t = <<>> THEN KeptPart(cur)
  ELSE IF Head(t) = "/" THEN KeptPart(cur) \o PathParts(Tail(t), <<>>)
  ELSE PathParts(Tail(t), Append(cur, Head(t)))

\* _state_path: STATE_DIR / f"{session_id}.json"; an absolute name replaces
\* STATE_DIR
state_path(session_id) ==
  LET name == session_id \o EXT_JSON
  IN [root |-> IF Head(name) = "/" THEN "/" ELSE "STATE_DIR",
      parts |-> PathParts(name, <<>>)]

\* a file write_text has opened and not yet written, and a file holding the
\* start of one text and the end of another
EMPTY_FILE == [content |-> "empty"]
TORN_FILE == [content |-> "torn"]

\* load_state on the file of the session: the fresh record when the file is
\* missing or does not parse
load_state_file(fs, session_id) ==
  LET path == state_path(session_id)
  IN IF path \in DOMAIN fs /\ fs[path] \notin {EMPTY_FILE, TORN_FILE} THEN fs[path]
     ELSE [session_id |-> session_id, history |-> <<>>]

PairPayloads == {[event |-> "user_message", user_message |-> t] : t \in {T_YES, T_SQUARE}}

PairReplies ==
  {AgentReply("need_clarification", AM_SUMMARY, <<Q_MODEL>>, <<>>, <<>>, FALSE),
   AgentReply("planned", AM_SUMMARY, <<>>, <<"1. sketch">>, <<>>, FALSE),
   FALLBACK_REPLY}

\* the session files before the processes start: none, or the file of
\* session "a" after one run
InitPair ==
  /\ files \in {<<>>, save_state(<<>>, state_path(ID_A), [PastState(1, 1) EXCEPT !.session_id = ID_A])}
  /\ rn = IDLE
  /\ out = NO_OUTPUT
  /\ runs = 0
  /\ host = HOST_IDLE
  /\ ui = UI_NONE
  /\ notifies = 0
  /\ norm = NORM_IDLE
  /\ peers \in [Procs -> {[pc |-> "start", session_id |-> id] : id \in PairSessionIds}]
  /\ exec = EXEC_IDLE

\* main from its entry to load_state
PairLoad(p) ==
  /\ peers[p].pc = "start"
  /\ \E payload \in PairPayloads :
       peers' = [peers EXCEPT ![p] =
                   [pc |-> "loaded", session_id |-> peers[p].session_id,
                    event |-> PayloadEvent(payload), user_message |-> PayloadText(payload),
                    state |-> load_state_file(files, peers[p].session_id)]]
  /\ UNCHANGED <<files, rn, out, runs, host, ui, notifies, norm, exec>>

\* the model has answered, main has repaired the reply and added the turns,
\* and write_text has opened the session file, which empties it
PairOpen(p) ==
  /\ peers[p].pc = "loaded"
  /\ \E reply \in PairReplies :
       LET me == peers[p]
           final == FinalReply(me.event, me.user_message, me.state, reply)
       IN peers' = [peers EXCEPT ![p] =
                      [pc |-> "open", session_id |-> me.session_id, event |-> me.event,
                       user_message |-> me.user_message, state |-> me.state,
                       reply |-> final,
                       data |-> Persisted(me.state, me.event, me.user_message, final),
                       others_loaded |-> \A q \in Procs : peers[q].pc # "start"]]
  /\ files' = save_state(files, state_path(peers[p].session_id), EMPTY_FILE)
  /\ UNCHANGED <<rn, out, runs, host, ui, notifies, norm, exec>>

\* write_text writes the record from the start of the file and main prints
\* the reply; over a text another process wrote since the file was opened
\* the file holds the record or, when the record is the shorter text, the
\* record followed by the rest of the other text
PairWrite(p) ==
  /\ peers[p].pc = "open"
  /\ LET path == state_path(peers[p].session_id)
         data == peers[p].data
     IN \E content \in (IF files[path] \in {EMPTY_FILE, data} THEN {data}
                        ELSE {data, TORN_FILE}) :
          files' = save_state(files, path, content)
  /\ peers' = [peers EXCEPT ![p] =
                 [pc |-> "done", session_id |-> peers[p].session_id,
                  event |-> peers[p].event, user_message |-> peers[p].user_message,
                  state |-> peers[p].state, reply |-> peers[p].reply,
                  data |-> peers[p].data, others_loaded |-> peers[p].others_loaded,
                  order |-> 1 + Cardinality({q \in Procs : peers[q].pc = "done"})]]
  /\ UNCHANGED <<rn, out, runs, host, ui, notifies, norm, exec>>

NextPair == \E p \in Procs : PairLoad(p) \/ PairOpen(p) \/ PairWrite(p)

SpecPair == InitPair /\ [][NextPair]_vars

----------------------------------------------------------------------------
(* The executor of the add-in (FusionActionExecutor) *)

\* longest action list executed
MaxActions == 4

\* f"sk_{idx}", for the indexes of a list
SketchIds == <<"sk_0", "sk_1", "sk_2", "sk_3", "sk_4">>
SketchId(idx) == SketchIds[idx + 1]

\* actions a reply may hold
ACT_SKETCH_BAD_PLANE == [action |-> "create_sketch", params |-> [plane |-> "AB"]]
ACT_CIRCLE_SK1 ==
  [action |-> "add_circle", params |-> [sketch_id |-> "sk_1", cx |-> 0, cy |-> 0, r |-> 1]]
ACT_EXTRUDE == [action |-> "extrude_last_profile", params |-> [distance |-> 1]]
ACT_EXTRUDE_ZERO == [action |-> "extrude_last_profile", params |-> [distance |-> 0]]
ACT_TEXT == [action |-> "add_text", params |-> [plane |-> "XY"]]

ExecActions ==
  {ACT_SKETCH, ACT_SKETCH_BAD_PLANE, ACT_RECT, ACT_CIRCLE_SK1, ACT_EXTRUDE, ACT_EXTRUDE_ZERO,
   ACT_TEXT}

RECURSIVE ListsUpTo(_, _)
ListsUpTo(S, n) ==
  IF n = 0 THEN {<<>>}
  ELSE LET shorter == ListsUpTo(S, n - 1)
       IN shorter \cup {Append(l, a) : l \in {s \in shorter : Len(s) = n - 1}, a \in S}

ExecLists == ListsUpTo(ExecActions, MaxActions)

\* the planes of plane_map
Planes == {"XY", "YZ", "XZ"}

\* None, for a sketch and for a profile
NO_SKETCH == 0
NO_PROFILE == [sketch |-> 0, n |-> 0]

\* the last profile of a sketch of the design: one profile for every closed
\* shape drawn on it
get_last_profile(sketches, sketch) ==
  IF sketch # NO_SKETCH /\ sketches[sketch].shapes > 0
  THEN [sketch |-> sketch, n |-> sketches[sketch].shapes]
  ELSE NO_PROFILE

\* the sketches of the design that hold a profile
WithProfile(sketches) == {i \in 1..Len(sketches) : sketches[i].shapes > 0}

\* _find_recent_profile: the cached profile, else the last profile of the
\* newest sketch that has one
find_recent_profile(sketches, cached) ==
  IF cached # NO_PROFILE THEN cached
  ELSE IF WithProfile(sketches) = {} THEN NO_PROFILE
  ELSE LET i == CHOOSE i \in WithProfile(sketches) : \A j \in WithProfile(sketches) : j <= i
       IN [sketch |-> i, n |-> sketches[i].shapes]

\* _state and the design when execute_actions starts: a new design, or what
\* an earlier execution left
ExecStarts ==
  {[sketches |-> <<>>, last_sketch |-> NO_SKETCH, state_profile |-> NO_PROFILE],
   [sketches |-> <<[plane |-> "XY", shapes |-> 1, text |-> 0]>>, last_sketch |-> 1,
    state_profile |-> [sketch |-> 1, n |-> 1]]}

\* execute_actions is entered
ExecBegin(actions, start) ==
  [pc |-> "loop", actions |-> actions, idx |-> 0,
   sketch_context |-> <<>>, last_profile |-> NO_PROFILE, made_geometry |-> FALSE,
   sketches |-> start.sketches, last_sketch |-> start.last_sketch,
   state_profile |-> start.state_profile,
   ok |-> FALSE, details |-> "none",
   created |-> <<>>, drawn |-> <<>>, failures |-> <<>>]

InitExec ==
  /\ files = <<>>
  /\ rn = IDLE
  /\ out = NO_OUTPUT
  /\ runs = 0
  /\ host = HOST_IDLE
  /\ ui = UI_NONE
  /\ notifies = 0
  /\ norm = NORM_IDLE
  /\ peers = NO_PEERS
  /\ exec \in {ExecBegin(actions, start) : actions \in ExecLists, start \in ExecStarts}

\* the executor after one action of the list, e being the executor before it:
\* the handler of the action has returned success or failure
AfterAction(e, action) ==
  LET name == action.action
      params == action.params
      next == [e EXCEPT !.idx = @ + 1]
      failed == [next EXCEPT !.failures = Append(@, e.idx)]
      new == Len(e.sketches) + 1
  IN CASE name = "create_sketch" ->
            IF params.plane \notin Planes THEN failed
            ELSE [next EXCEPT !.sketches = Append(@, [plane |-> params.plane, shapes |-> 0,
                                                     text |-> 0]),
                              !.sketch_context = (SketchId(e.idx) :> new) @@ @,
                              !.last_sketch = new,
                              !.made_geometry = TRUE,
                              !.created = Append(@, [sketch |-> new, idx |-> e.idx])]
       [] name \in {"add_rectangle", "add_circle"} ->
            LET known == IF params.sketch_id \in DOMAIN e.sketch_context
                         THEN e.sketch_context[params.sketch_id] ELSE e.last_sketch
                fallback == known = NO_SKETCH
                sketch == IF fallback THEN new ELSE known
                sketches == IF fallback
                            THEN Append(e.sketches, [plane |-> "XY", shapes |-> 1, text |-> 0])
                            ELSE [e.sketches EXCEPT ![sketch].shapes = @ + 1]
                profile == get_last_profile(sketches, sketch)
            IN [next EXCEPT !.sketches = sketches,
                            !.last_sketch = sketch,
                            !.made_geometry = TRUE,
                            !.last_profile = profile,
                            !.state_profile = IF profile # NO_PROFILE THEN profile ELSE @,
                            !.drawn = Append(@, [idx |-> e.idx, sketch_id |-> params.sketch_id,
                                                 on |-> sketch])]
       [] name = "extrude_last_profile" ->
            LET given == IF e.last_profile # NO_PROFILE THEN e.last_profile
                         ELSE e.state_profile
                profile == IF given # NO_PROFILE THEN given
                           ELSE find_recent_profile(e.sketches, e.state_profile)
            IN IF profile = NO_PROFILE \/ params.distance <= 0 THEN failed
               ELSE [next EXCEPT !.made_geometry = TRUE]
       [] name = "add_text" ->
            IF params.plane \notin Planes THEN failed
            ELSE [next EXCEPT !.sketches = Append(@, [plane |-> params.plane, shapes |-> 0,
                                                     text |-> 1]),
                              !.last_sketch = new,
                              !.made_geometry = TRUE]
       [] OTHER -> next

\* the action is one whose handler creates its feature through the CAD host
\* inside a try block of its own
CatchesHostError(action) == action.action = "extrude_last_profile"

\* one pass of the loop of execute_actions: the handler of the action runs,
\* and the call into the CAD host it makes succeeds or raises
ExecAction ==
  /\ exec.pc = "loop"
  /\ exec.idx < Len(exec.actions)
  /\ LET action == exec.actions[exec.idx + 1]
         done == AfterAction(exec, action)
     IN \E host_raises \in BOOLEAN :
          exec' = IF ~host_raises \/ done.failures # exec.failures THEN done
                  ELSE IF CatchesHostError(action)
                    THEN [exec EXCEPT !.idx = @ + 1, !.failures = Append(@, exec.idx)]
                  ELSE [exec EXCEPT !.pc = "returned", !.ok = FALSE,
                                    !.details = "Execution error",
                                    !.failures = Append(@, exec.idx)]
  /\ UNCHANGED <<files, rn, out, runs, host, ui, notifies, norm, peers>>

\* the loop is over: execute_actions returns
ExecReturn ==
  /\ exec.pc = "loop"
  /\ exec.idx = Len(exec.actions)
  /\ exec' = [exec EXCEPT !.pc = "returned", !.ok = TRUE,
                          !.details = "All actions executed successfully."]
  /\ UNCHANGED <<files, rn, out, runs, host, ui, notifies, norm, peers>>

NextExec == ExecAction \/ ExecReturn

SpecExec == InitExec /\ [][NextExec]_vars

----------------------------------------------------------------------------
(* Properties of the agent runner (checked under Spec) *)

\* the runner has printed a reply (of main, of its exception handler, or of
\* parse_payload_from_argv)
Printed == out.kind # "none"

\* the event of the printed reply is known and is not execution_result
NotExecutionResult == "event" \in DOMAIN out => out.event # "execution_result"

\* C1: for every event other than execution_result, whatever the model
\* returned, the reply the runner prints never has status done.
C1_NeverDoneWithoutExecutionResult ==
  (Printed /\ NotExecutionResult) => out.reply.status # "done"

\* C1 witness: the model claimed done on an unknown event and a reply was printed
C1_Witness ==
  /\ out.kind = "reply"
  /\ out.event = "reset"
  /\ out.model_reply.status = "done"

\* C2: every printed reply with status ready_to_execute has
\* requires_confirmation = true.
C2_ReadyRequiresConfirmation ==
  (Printed /\ out.reply.status = "ready_to_execute") => out.reply.requires_confirmation

\* C2 witness: the model said ready_to_execute with the flag false
C2_Witness ==
  /\ out.kind = "reply"
  /\ out.model_reply.status = "ready_to_execute"
  /\ ~out.model_reply.requires_confirmation
  /\ out.reply.status = "ready_to_execute"

\* C3: every printed reply with status ready_to_execute has a non-empty
\* actions list.
C3_ReadyHasActions ==
  (Printed /\ out.reply.status = "ready_to_execute") => out.reply.actions # <<>>

\* a questions list holds the plan-confirmation prompt, compared as main does
HasConfirmQuestion(questions) ==
  \E i \in 1..Len(questions) : lower(strip(questions[i])) = lower(CONFIRM_QUESTION)

\* C7: every printed reply with status planned holds the plan-confirmation
\* prompt in its questions, also when the status became planned by the
\* downgrade of a premature done, and the prompt is not added when the model's
\* questions already hold it (compared case-insensitively).
C7_PlannedHasConfirmQuestion ==
  (Printed /\ out.reply.status = "planned") =>
    /\ HasConfirmQuestion(out.reply.questions)
    /\ HasConfirmQuestion(out.model_reply.questions) =>
         out.reply.questions = out.model_reply.questions

\* C8: every printed reply with status need_clarification has a non-empty
\* questions list, on every path that prints a reply.
C8_ClarificationHasQuestions ==
  (Printed /\ out.reply.status = "need_clarification") => out.reply.questions # <<>>

\* C9: a done claimed by the model on an event other than execution_result is
\* downgraded to ready_to_execute with requires_confirmation = true when the
\* reply carries actions and to planned when it carries none; the downgrade
\* leaves actions, plan and questions as they were, and for events other than
\* confirm_execute the downgraded reply is the one printed.
C9_DoneDowngrade ==
  (out.kind = "reply" /\ out.event # "execution_result" /\ out.model_reply.status = "done") =>
    /\ out.model_reply.actions # <<>> =>
         out.after_gate.status = "ready_to_execute" /\ out.after_gate.requires_confirmation
    /\ out.model_reply.actions = <<>> => out.after_gate.status = "planned"
    /\ out.after_gate.actions = out.model_reply.actions
    /\ out.after_gate.plan = out.model_reply.plan
    /\ out.after_gate.questions = out.model_reply.questions
    /\ out.event # "confirm_execute" => out.reply = out.after_gate

\* C9 witness: a premature done carrying actions, a plan and questions
C9_Witness ==
  /\ out.kind = "reply"
  /\ out.event = "user_message"
  /\ out.model_reply.status = "done"
  /\ out.model_reply.actions # <<>>
  /\ out.model_reply.questions # <<>>
  /\ out.reply.status = "ready_to_execute"

\* the user texts of the command lines that are affirmative confirmations, as
\* main sees them (stripped)
AffirmativeTexts == {<<"Y", "e", "s">>, <<"O", "K">>, T_OK_TO_PROCEED}

\* the session record on disk says the last status was planned
PersistedPlanned(session_id) ==
  session_id \in DOMAIN files /\ "last_status" \in DOMAIN files[session_id]
  /\ files[session_id].last_status = "planned"

\* C10: during the first pass (so before the first model call) the messages
\* end with the forced plan-to-actions directive exactly when the event is
\* user_message, the text is an affirmative confirmation and the persisted
\* last_status is planned; otherwise they do not hold it at all.
C10_ForcedDirective ==
  (rn.pc = "ask" /\ rn.pass = 1) =>
    IF rn.event = "user_message" /\ rn.user_message \in AffirmativeTexts
       /\ PersistedPlanned(rn.session_id)
    THEN rn.messages[Len(rn.messages)] = FORCE_DIRECTIVE
    ELSE FORCE_DIRECTIVE \notin Range(rn.messages)

\* C10 witness: 'Yes' after a planned reply, before the first model call
C10_Witness ==
  /\ rn.pc = "ask" /\ rn.pass = 1 /\ rn.attempt = 1
  /\ rn.event = "user_message"
  /\ rn.user_message = T_YES
  /\ PersistedPlanned(rn.session_id)
  /\ rn.messages[Len(rn.messages)] = FORCE_DIRECTIVE

----------------------------------------------------------------------------
(* Properties of the add-in (checked under SpecHost) *)

\* C4: the add-in never executes an empty action list; when the reply to
\* confirm_execute, the cached actions, the reply to force_actions and the
\* keyword defaults all yield no actions, the handler ends with the
\* need_clarification message, no execution and no execution_result call.
C4_NeverExecutesEmpty ==
  /\ \A i \in 1..Len(ui.executed) : ui.executed[i].actions # <<>>
  /\ (/\ ui.event = "confirm_execute"
      /\ Len(ui.replies) >= 2
      /\ ReplyActions(ui.replies[1]) = <<>>
      /\ ReplyActions(ui.replies[2]) = <<>>
      /\ host.last_actions = <<>>
      /\ DefaultActions(host.user_message) = <<>>)
     => /\ host.pc = "idle"
        /\ ui.executed = <<>>
        /\ ui.sent[Len(ui.sent)] = NO_ACTIONS_PAYLOAD
        /\ \A i \in 1..Len(ui.calls) : ui.calls[i].event # "execution_result"

\* C4 witness: a confirm_execute for which nothing yields actions
C4_Witness ==
  /\ ui.event = "confirm_execute"
  /\ host.pc = "idle"
  /\ Len(ui.replies) = 2
  /\ host.last_actions = <<>>
  /\ ui.calls[2].event = "force_actions"
  /\ ui.sent[Len(ui.sent)] = NO_ACTIONS_PAYLOAD

\* C5: actions are executed only while a confirm_execute event is handled.
C5_ExecutesOnlyOnConfirm ==
  ui.executed # <<>> => ui.event = "confirm_execute"

\* C5 witness: a user_message whose reply is ready_to_execute with actions has
\* been handled to its end
C5_Witness ==
  /\ ui.event = "user_message"
  /\ host.pc = "idle"
  /\ Len(ui.replies) = 1
  /\ ui.replies[1].status = "ready_to_execute"
  /\ ReplyActions(ui.replies[1]) # <<>>
  /\ ui.executed = <<>>

\* C6: the add-in executes actions only when the reply to confirm_execute had
\* status ready_to_execute.
C6_ExecutesOnlyAfterReady ==
  ui.executed # <<>> => ui.replies[1].status = "ready_to_execute"

----------------------------------------------------------------------------
(* Properties of the model calls and of persistence (checked under Spec) *)

\* the printed reply answers an affirmative user_message that follows a
\* persisted planned status
PlanWasConfirmed ==
  /\ out.event = "user_message"
  /\ out.user_message \in AffirmativeTexts
  /\ LastStatus(out.state) = "planned"

\* C11: after a forced plan confirmation a second, corrective pass is made
\* exactly when the first reply is not ready_to_execute with actions; the second
\* reply replaces the first only if it carries an action, otherwise the first
\* is kept as it was; there is never a third pass.
C11_SecondPass ==
  /\ rn.pc = "ask" => rn.pass \in {1, 2}
  /\ out.kind = "reply" =>
       /\ out.pass \in {1, 2}
       /\ (out.pass = 2) <=>
            (/\ PlanWasConfirmed
             /\ ~(out.first_reply.status = "ready_to_execute"
                  /\ out.first_reply.actions # <<>>))
       /\ out.pass = 2 =>
            out.model_reply = IF out.last_reply.actions # <<>>
                              THEN out.last_reply ELSE out.first_reply
       /\ out.pass = 1 => out.model_reply = out.first_reply

\* C11 witness: the corrective pass brought no actions and the planned first
\* reply was kept
C11_Witness ==
  /\ out.kind = "reply"
  /\ out.pass = 2
  /\ out.first_reply.status = "planned"
  /\ out.last_reply.actions = <<>>
  /\ out.last_reply # out.first_reply
  /\ out.model_reply = out.first_reply

\* C12: on confirm_execute, when the model's reply carries no actions and the
\* persisted last_actions is non-empty with every entry a valid Action, the
\* printed reply has exactly last_actions, status ready_to_execute and
\* requires_confirmation = true, whatever status the model gave.
C12_ReusesLastActions ==
  (/\ out.kind = "reply"
   /\ out.event = "confirm_execute"
   /\ out.model_reply.actions = <<>>
   /\ LastActions(out.state) # <<>>
   /\ \A i \in 1..Len(LastActions(out.state)) : ValidAction(LastActions(out.state)[i]))
  => /\ out.reply.actions = LastActions(out.state)
     /\ out.reply.status = "ready_to_execute"
     /\ out.reply.requires_confirmation

\* C12 witness: the model answered confirm_execute with need_clarification and
\* no actions while the session held two actions
C12_Witness ==
  /\ out.kind = "reply"
  /\ out.event = "confirm_execute"
  /\ out.model_reply.status = "need_clarification"
  /\ out.model_reply.actions = <<>>
  /\ Len(LastActions(out.state)) = 2
  /\ out.reply.actions = LastActions(out.state)

\* C13: on confirm_execute with persisted last_status planned and no persisted
\* actions, when the model returns no actions, the printed reply has status
\* need_clarification, questions and no actions, whatever status the model gave.
C13_ConfirmWithoutActionsAsks ==
  (/\ out.kind = "reply"
   /\ out.event = "confirm_execute"
   /\ LastStatus(out.state) = "planned"
   /\ LastActions(out.state) = <<>>
   /\ out.last_reply.actions = <<>>)
  => /\ out.reply.status = "need_clarification"
     /\ out.reply.questions # <<>>
     /\ out.reply.actions = <<>>

\* C14: every processed event, also one that ends in main's exception handler,
\* leaves the session record with one user turn and one assistant turn (the
\* printed reply) appended to the history it had, and with last_status equal to
\* the printed status.
C14_EveryEventIsRecorded ==
  out.kind \in {"reply", "exception"} =>
    /\ out.session_id \in DOMAIN files
    /\ files[out.session_id].history =
         out.state.history
         \o <<UserTurn(out.event, out.user_message), AssistantTurn(out.reply)>>
    /\ LastStatus(files[out.session_id]) = out.reply.status

\* C15: ask_model_with_retries never raises to main: a model call that fails
\* in transport counts as a failed attempt, so no run with the credential
\* present ends in main's exception handler.
C15_AskNeverRaises ==
  out.kind = "exception" => out.raised # "model_call"

\* C16: ask_model_with_retries makes at most MAX_TRIES calls, returns the reply
\* of the first attempt that validates, and when every attempt fails parsing or
\* validation returns the canned reply: need_clarification, three questions,
\* no plan and no actions (none taken from a failed attempt).
C16_BoundedRetries ==
  /\ rn.pc = "ask" => rn.attempt \in 1..MAX_TRIES
  /\ out.kind = "reply" =>
       /\ out.attempt \in 1..MAX_TRIES
       /\ out.answer.kind = "valid" => out.last_reply = out.answer.reply
       /\ out.answer.kind # "valid" =>
            /\ out.attempt = MAX_TRIES
            /\ out.last_reply.status = "need_clarification"
            /\ Len(out.last_reply.questions) = 3
            /\ out.last_reply.plan = <<>>
            /\ out.last_reply.actions = <<>>

\* C16 witness: the third attempt failed validation while proposing actions
C16_Witness ==
  /\ out.kind = "reply"
  /\ out.attempt = MAX_TRIES
  /\ out.answer.kind = "bad_schema"
  /\ out.answer.actions # <<>>
  /\ out.reply.status = "need_clarification"

\* what the claim says attempt number `attempt` sends, given the caller's
\* messages and the answer the attempt before it failed on
ExpectedAttemptMessages(messages, attempt, failed) ==
  IF attempt = 1 THEN messages
  ELSE messages
       \o <<FIX_BLOCK>>
       \o (IF failed.kind = "empty" THEN <<>>
           ELSE <<Msg("user", [t |-> "previous_output", content |-> failed])>>)
       \o <<Msg("user", [t |-> "errors",
                         error |-> IF failed.kind = "bad_schema"
                                   THEN "ValidationError" ELSE "JSON parse error"])>>

\* C17: attempt k > 1 sends the caller's messages, then the corrective system
\* instruction, then the raw output of attempt k-1 when it is non-empty, then
\* the error of attempt k-1, in that order and nothing older; attempt 1 sends
\* the caller's messages only; the caller's list stays as main built it.
C17_AttemptMessages ==
  out.kind = "reply" =>
    /\ out.sent = ExpectedAttemptMessages(out.messages, out.attempt, out.failed)
    /\ out.messages =
         FirstMessages(out.state, out.event, out.user_message)
         \o (IF out.pass = 2 THEN <<MUST_DIRECTIVE>> ELSE <<>>)

\* C17 witness: a third attempt after an empty output and then an output that
\* failed validation
C17_Witness ==
  /\ out.kind = "reply"
  /\ out.attempt = MAX_TRIES
  /\ out.failed.kind = "bad_schema"
  /\ Len(out.sent) = Len(out.messages) + 3

\* C18: with the model API credential missing the runner ends with an error
\* outcome of the process, not with a need_clarification reply on its normal
\* output and exit code 0.
C18_MissingCredentialFailsLoudly ==
  (out.kind = "exception" /\ out.raised = "no_api_key") => out.code # 0

----------------------------------------------------------------------------
(* Properties of the actions admitted into a reply *)

\* a well-formed entry: a mapping with an allowed kind and a params dict
WellFormedEntry(a) ==
  /\ IsDict(a)
  /\ "action" \in DOMAIN a /\ a.action \in AllowedActions
  /\ "params" \in DOMAIN a /\ IsDict(a.params)

\* C19 (checked under SpecFilter): filter_allowed_actions returns exactly the
\* well-formed entries of the candidate list, in their order, and the empty
\* list for a candidate that is not a list.
C19_FilterKeepsWellFormed ==
  norm.pc \in {"filtered", "validated"} =>
    norm.result.actions =
      JList(IF "actions" \in DOMAIN norm.raw /\ IsList(norm.raw.actions)
            THEN SelectSeq(norm.raw.actions.list, WellFormedEntry)
            ELSE <<>>)

\* C20 (checked under Spec): every action of every printed reply has a kind of
\* the closed set and all the parameters its kind requires.
C20_ActionsMeetSchema ==
  Printed =>
    \A i \in 1..Len(out.reply.actions) :
      /\ out.reply.actions[i].action \in AllowedActions
      /\ RequiredParams(out.reply.actions[i].action)
           \subseteq DOMAIN out.reply.actions[i].params

----------------------------------------------------------------------------
(* Properties of the repair steps *)

\* C21 (checked under SpecExtract): for a model output that holds one balanced
\* JSON object, with or without fences and prose around it and also when a
\* string value of the object holds a brace, extract_json_object returns
\* exactly the text of the object; for an output without a balanced object it
\* returns the text without its fences.
C21_ExtractsTheObject ==
  norm.pc = "extracted" =>
    IF "object" \in DOMAIN norm.input
    THEN norm.raw_text = norm.input.object
    ELSE norm.raw_text = norm.input.bare

\* the three repair steps of ask_model_with_retries, in their order
Normalized(parsed) == filter_allowed_actions(normalize_types(coerce_defaults(parsed)))

\* C22: normalization is idempotent: the three steps applied to the object
\* they produced give that object again, so twice is the same as once, for
\* every parsed object the steps accept
C22_NormalizationIsIdempotent ==
  (norm.pc = "filtered" /\ "d" \in DOMAIN norm) => Normalized(norm.d) = norm.d

\* a model output whose questions, actions and flag were strings has been
\* normalized
C22_Witness ==
  /\ norm.pc = "filtered"
  /\ "d" \in DOMAIN norm
  /\ DOMAIN norm.raw = {"status", "questions", "plan", "actions", "requires_confirmation"}
  /\ IsStr(norm.raw.questions) /\ IsStr(norm.raw.plan)
  /\ IsStr(norm.raw.actions) /\ IsStr(norm.raw.requires_confirmation)
  /\ Len(norm.d.questions.list) = 3
  /\ Len(norm.d.actions.list) = 1

\* C23: after normalization requires_confirmation is true only when the
\* model output gave the boolean true, and false for a missing value and for
\* every value that is not a boolean
C23_FlagOnlyFromBooleanTrue ==
  (norm.pc \in {"normalized", "filtered"} /\ "d" \in DOMAIN norm) =>
    norm.d.requires_confirmation =
      JBool(/\ "requires_confirmation" \in DOMAIN norm.raw
            /\ norm.raw.requires_confirmation = JBool(TRUE))

\* C24: normalization always ends with one of the five recognized statuses:
\* a recognized status is kept, a missing or any other one becomes
\* need_clarification
C24_StatusIsRecognized ==
  /\ norm.pc # "raised"
  /\ (norm.pc \in {"normalized", "filtered"} /\ "d" \in DOMAIN norm) =>
       norm.d.status =
         IF /\ "status" \in DOMAIN norm.raw
            /\ IsStr(norm.raw.status)
            /\ norm.raw.status.text \in StatusTexts
         THEN norm.raw.status
         ELSE JStr(S_NEED)

----------------------------------------------------------------------------
(* Properties of the messages of a model call (checked under SpecMessages) *)

\* the runner is at its first model call
AtFirstCall == rn.pc = "ask" /\ rn.pass = 1 /\ rn.attempt = 1

\* the number of history turns replayed
Replayed == IF Len(rn.state.history) < 8 THEN Len(rn.state.history) ELSE 8

\* C25: for a history of any length n the messages built for a model call
\* are the three fixed system messages, then the last min(8, n) turns of the
\* history in their order, then one user message for the event
C25_MessagesReplayTheWindow ==
  AtFirstCall =>
    LET h == rn.state.history
        n == Len(h)
        built == Len(rn.messages) - (IF rn.plan_confirmed THEN 1 ELSE 0)
    IN /\ built = 3 + Replayed + 1
       /\ SubSeq(rn.messages, 1, 3) =
            <<Msg("system", Const("SYSTEM_ROLE")), Msg("system", Const("USER_GUIDE")),
              Msg("system", Const("EXAMPLE_NEED_CLARIFY"))>>
       /\ \A i \in 1..Replayed : rn.messages[3 + i] = h[n - Replayed + i]
       /\ rn.messages[built].role = "user"

\* a model call for a session whose history is longer than the window
C25_Witness == AtFirstCall /\ Len(rn.state.history) > 8

\* C26: the user message for the event is the user text for user_message,
\* one fixed sentence for confirm_execute whatever the user text, the text
\* marked as an execution report for execution_result, and the user text for
\* any other event
C26_EventMessageMapping ==
  AtFirstCall =>
    LET content == rn.messages[3 + Replayed + 1].content
    IN CASE rn.event = "user_message" -> content = Text(rn.user_message)
         [] rn.event = "confirm_execute" ->
              content = Const("User confirms: proceed with execution of proposed actions.")
         [] rn.event = "execution_result" ->
              content = [t |-> "exec_report", text |-> rn.user_message]
         [] OTHER -> content = Text(rn.user_message)

\* a confirm_execute that carries a user text of its own
C26_Witness == AtFirstCall /\ rn.event = "confirm_execute" /\ rn.user_message = T_SQUARE

----------------------------------------------------------------------------
(* Properties of the runner's replies, continued (checked under Spec) *)

\* the events the runner and the add-in give a meaning to
SupportedEvents == {"user_message", "confirm_execute", "execution_result", "force_actions"}

\* C27: an event that is not a supported one is answered with a
\* need_clarification reply, the model is not called for it and the session
\* record stays as it was loaded
C27_UnsupportedEventIsRefused ==
  /\ rn.pc = "ask" => rn.event \in SupportedEvents
  /\ (Printed /\ "event" \in DOMAIN out /\ out.event \notin SupportedEvents) =>
       /\ out.reply.status = "need_clarification"
       /\ load_state(files, out.session_id) = out.state

\* C28: no reply the runner prints has the status executing
C28_NeverRepliesExecuting ==
  (Printed /\ "reply" \in DOMAIN out) => out.reply.status # "executing"

----------------------------------------------------------------------------
(* Properties of runner processes side by side (checked under SpecPair) *)

\* every process has saved and printed
PairDone == \A p \in Procs : peers[p].pc = "done"

\* the content of the session file of an id
RecordOf(fs, session_id) ==
  IF state_path(session_id) \in DOMAIN fs THEN fs[state_path(session_id)]
  ELSE [content |-> "missing"]

\* C29: when the invocations for one session id have all loaded the record
\* before any of them saves, the record persisted after all have finished is
\* the one of the invocation that saved last: the history it loaded, its own
\* two turns and its last_status
C29_LastWriterWins ==
  (/\ PairDone
   /\ \A p, q \in Procs : peers[p].session_id = peers[q].session_id
   /\ \A p \in Procs : peers[p].others_loaded) =>
    LET last == CHOOSE p \in Procs : peers[p].order = MaxPeers
        me == peers[last]
    IN /\ RecordOf(files, me.session_id) = me.data
       /\ me.data.history =
            me.state.history \o <<UserTurn(me.event, me.user_message), AssistantTurn(me.reply)>>
       /\ me.data.last_status = me.reply.status
       /\ \A p \in Procs : peers[p].state = me.state

\* C30: a process for one session id loads the record of that session and
\* leaves the record of every other session id as it is
C30_SessionsAreIndependent ==
  [][\A p \in Procs :
       peers'[p] # peers[p] =>
         /\ peers'[p].pc = "loaded" => peers'[p].state.session_id = peers[p].session_id
         /\ \A id \in PairSessionIds \ {peers[p].session_id} :
              RecordOf(files', id) = RecordOf(files, id)]_vars

----------------------------------------------------------------------------
(* Properties of the executor (checked under SpecExec) *)

\* C31: when the handler of an action of the list has returned failure or
\* has raised, execute_actions returns ok = false with the failure detail,
\* which is what the add-in reports in the execution_result event
C31_ExecutionFailureIsReported ==
  (exec.pc = "returned" /\ exec.failures # <<>>) =>
    exec.ok = FALSE /\ exec.details = "Execution error"

\* C39: a rectangle or circle whose sketch_id is sk_k is drawn on the k-th
\* sketch the action list has created (sk_0 on the first), whenever the list
\* has created that many sketches before the shape
C39_SketchIdsFollowCreationOrder ==
  exec.pc # "idle" =>
    \A i \in 1..Len(exec.drawn) :
      \A k \in 0..(MaxActions - 1) :
        LET shape == exec.drawn[i]
        IN (/\ shape.sketch_id = SketchId(k)
            /\ k < Len(exec.created)
            /\ exec.created[k + 1].idx < shape.idx) =>
             shape.on = exec.created[k + 1].sketch

----------------------------------------------------------------------------
(* Properties of execution by the add-in (checked under SpecHost) *)

\* the start of a result text that reports success
RESULT_OK_PREFIX ==
  <<"{","\"","o","k","\"",":"," ","t","r","u","e",","," ","\"","d","e","t","a","i","l","s",
    "\"",":"," ","\"">>

\* the start of a result text that reports failure
RESULT_FAILED_PREFIX ==
  <<"{","\"","o","k","\"",":"," ","f","a","l","s","e",","," ","\"","d","e","t","a","i","l",
    "s","\"",":"," ","\"">>

\* the execution_result events the handling of the palette event has sent
Reports == SelectSeq(ui.calls, LAMBDA c : c.event = "execution_result")

\* C32: in the handling of a palette event every attempt to execute an
\* action list, also one where the executor cannot be created, is followed
\* by one execution_result event whose text holds the success flag and a
\* detail string, and no execution_result event is sent without an attempt;
\* attempts happen in the handling of confirm_execute only
C32_EveryExecutionIsReported ==
  /\ Len(Reports) = Len(ui.executed)
  /\ ui.executed # <<>> => ui.event = "confirm_execute"
  /\ \A i \in 1..Len(Reports) :
       LET text == Reports[i].user_message
           ok == ui.executed[i].outcome = "ok"
       IN /\ startswith(text, IF ok THEN RESULT_OK_PREFIX ELSE RESULT_FAILED_PREFIX)
          /\ Len(text) > Len(IF ok THEN RESULT_OK_PREFIX ELSE RESULT_FAILED_PREFIX) + 2

\* an execution for which no executor could be created has been reported
C32_Witness ==
  /\ host.pc = "idle"
  /\ Len(ui.executed) = 1
  /\ ui.executed[1].outcome = "no_design"
  /\ Len(Reports) = 1

----------------------------------------------------------------------------
(* Properties of the session record (checked under SpecMessages and Spec) *)

\* the history of the session on disk, empty when there is no record
HistoryOf(fs, session_id) ==
  IF session_id \in DOMAIN fs THEN fs[session_id].history ELSE <<>>

\* C33 (checked under SpecMessages): the history is append-only: every save
\* of a run leaves the history that was on disk as a prefix and adds two
\* entries, a user turn holding the raw text for user_message and the text
\* tagged with the event for any other event, then an assistant turn holding
\* the printed reply
C33_HistoryIsAppendOnly ==
  [][files' # files =>
       LET before == HistoryOf(files, rn.session_id)
           after == HistoryOf(files', rn.session_id)
       IN /\ Len(after) = Len(before) + 2
          /\ SubSeq(after, 1, Len(before)) = before
          /\ after[Len(before) + 1] =
               [role |-> "user",
                content |-> IF rn.event = "user_message" THEN Text(rn.user_message)
                            ELSE [t |-> "tagged", event |-> rn.event,
                                  text |-> rn.user_message]]
          /\ after[Len(before) + 2] =
               [role |-> "assistant", content |-> [t |-> "json", reply |-> out'.reply]]]_vars

\* a run for an event other than user_message has saved a record whose
\* history was not empty before
C33_Witness ==
  /\ out.kind = "reply"
  /\ out.event = "confirm_execute"
  /\ Len(out.state.history) >= 2
  /\ Len(HistoryOf(files, out.session_id)) = Len(out.state.history) + 2

\* C34 (checked under Spec): after a run that printed the model's reply the
\* persisted last_status is the status of that reply and the persisted
\* last_actions is its action list, an empty list included
C34_RecordHoldsTheLastReply ==
  out.kind = "reply" =>
    /\ LastStatus(files[out.session_id]) = out.reply.status
    /\ LastActions(files[out.session_id]) = out.reply.actions

----------------------------------------------------------------------------
(* Termination of a run (checked under SpecLive) *)

\* the run was started by an approval of a plan
\* C36: an action list whose execution has been reported is not proposed again
\* by the reuse of the cached actions: when the model's reply to a later
\* confirm_execute carries no actions, the runner does not return that list
\* and the add-in does not execute it.
C36_ExecutedListIsNotReused ==
  [][(/\ host.pc = "call" /\ host.stage = "first" /\ host.event = "confirm_execute"
      /\ rn.pc = "idle" /\ out.kind = "reply" /\ out.model_reply.actions = <<>>)
     => /\ out.reply.actions \notin host.reported
        /\ \A i \in 1..Len(ui'.executed) : ui'.executed[i].actions \notin host.reported]_vars

\* C37: the actions the add-in executes for a session come from that session:
\* every list executed was received from the agent, or made by the add-in,
\* after the current session id was created.
C37_ExecutedActionsAreOfTheSession ==
  \A i \in 1..Len(ui.executed) : ui.executed[i].actions \in host.proposed

\* some entry of the record's last_actions fails Action validation
HasInvalidEntry(state) ==
  \E i \in 1..Len(LastActions(state)) : ~ValidAction(LastActions(state)[i])

\* C38: the reuse of the cached actions on confirm_execute is all or nothing:
\* when an entry of the persisted last_actions fails validation, the reply
\* keeps the actions, status and requires_confirmation it had before the reuse,
\* and the run ends with an ordinary reply, not an error.
C38_ReuseIsAllOrNothing ==
  (out.kind = "reply" /\ out.event = "confirm_execute" /\ HasInvalidEntry(out.state)) =>
    LET before == EnsureConfirmation(out.after_gate)
    IN /\ out.reply.actions = before.actions
       /\ out.reply.status = before.status
       /\ out.reply.requires_confirmation = before.requires_confirmation
       /\ out.code = 0
       /\ out.reply # ERROR_REPLY

\* a run on a record with a valid and an invalid entry, the model's reply
\* without actions: the reply stays without actions
C38_Witness ==
  /\ out.kind = "reply" /\ out.event = "confirm_execute"
  /\ HasInvalidEntry(out.state)
  /\ \E i \in 1..Len(LastActions(out.state)) : ValidAction(LastActions(out.state)[i])
  /\ out.model_reply.actions = <<>>
  /\ out.model_reply.status = "planned"
  /\ out.reply.actions = <<>>
  /\ out.reply.status = "planned"

\* the messages with a status that the add-in has sent to the palette, and the
\* replies call_agent has returned, while handling the current event
StatusesShown ==
  {ui.sent[i].status : i \in {j \in 1..Len(ui.sent) : "status" \in DOMAIN ui.sent[j]}}
    \cup {ui.replies[i].status : i \in 1..Len(ui.replies)}

\* C40: in the add-in with its runners a reply with status done is returned
\* only after the add-in has attempted the execution of a non-empty action
\* list while handling a confirm_execute event: it is the reply to the
\* execution_result call, and no user_message or confirm_execute event gives
\* done without that execution.
C40_DoneOnlyAfterExecution ==
  /\ "done" \in StatusesShown =>
       /\ ui.event = "confirm_execute"
       /\ Len(ui.executed) = 1
       /\ ui.executed[1].actions # <<>>
       /\ Len(ui.replies) = Len(ui.calls)
       /\ ui.calls[Len(ui.calls)].event = "execution_result"
       /\ \A i \in 1..(Len(ui.replies) - 1) : ui.replies[i].status # "done"
  /\ (host.pc = "call" /\ out.kind = "reply" /\ out.reply.status = "done") =>
       /\ out.event = "execution_result"
       /\ ui.executed # <<>>
       /\ out.session_id = host.session_id

\* the model answers done to the report of an execution, and the palette is
\* shown the reply
C40_Witness ==
  /\ host.pc = "idle"
  /\ ui.event = "confirm_execute"
  /\ Len(ui.executed) = 1
  /\ ui.replies # <<>>
  /\ ui.replies[Len(ui.replies)].status = "done"
  /\ ui.sent[Len(ui.sent)].status = "done"

WasPlanConfirmation(event, user_message, state) ==
  event = "user_message" /\ is_confirmation_text(user_message)
  /\ LastStatus(state) = "planned"

\* C35: a run makes at most 2 * MAX_TRIES model calls, at most MAX_TRIES when
\* its event is not the approval of a plan, and it always ends
C35_RunTerminates ==
  /\ [](rn.pc = "ask" =>
          /\ rn.calls <= 2 * MAX_TRIES
          /\ ~WasPlanConfirmation(rn.event, rn.user_message, rn.state) =>
               rn.calls <= MAX_TRIES)
  /\ (rn.pc = "ask" ~> rn.pc = "idle")

\* a run that made every call it may make: two passes of MAX_TRIES attempts
C35_Witness == out.kind = "reply" /\ out.calls = 2 * MAX_TRIES

============================================================================
